---- MODULE Spec2Model ----
(***************************************************************************)
(* Retrieval-and-answer pipeline of the investor Q&A assistant             *)
(* (src/backend): the document/chunk store with upload, similarity search, *)
(* ask-question and clear-all; the provider reply parsers; the confidence  *)
(* extraction; the text chunker.                                           *)
(*                                                                         *)
(* Text is a sequence of one-character strings, so that the code's string  *)
(* operations (split, strip, startswith, replace, rfind, regex \d+) are    *)
(* computed character by character.  Positions inside the chunker are the  *)
(* 0-based positions of the Python code.                                   *)
(***************************************************************************)
EXTENDS Integers, Sequences, FiniteSets, TLC

\* ------------------------------------------------------------------------
\* Python string operations on character sequences
\* ------------------------------------------------------------------------
NL == "\n"
SP == " "

Whitespace == {SP, NL, "\t"}

Digits == <<"0", "1", "2", "3", "4", "5", "6", "7", "8", "9">>

UpperLetters == <<"A", "B", "C", "D", "E", "F", "G", "H", "I", "J", "K", "L", "M",
                  "N", "O", "P", "Q", "R", "S", "T", "U", "V", "W", "X", "Y", "Z">>

LowerLetters == <<"a", "b", "c", "d", "e", "f", "g", "h", "i", "j", "k", "l", "m",
                  "n", "o", "p", "q", "r", "s", "t", "u", "v", "w", "x", "y", "z">>

IsDigit(c) == \E i \in DOMAIN Digits : Digits[i] = c

DigitVal(c) == (CHOOSE i \in DOMAIN Digits : Digits[i] = c) - 1

\* str.lower() / str.upper() on one character
CharLower(c) ==
    IF \E i \in DOMAIN UpperLetters : UpperLetters[i] = c
    THEN LowerLetters[CHOOSE i \in DOMAIN UpperLetters : UpperLetters[i] = c]
    ELSE c

CharUpper(c) ==
    IF \E i \in DOMAIN LowerLetters : LowerLetters[i] = c
    THEN UpperLetters[CHOOSE i \in DOMAIN LowerLetters : LowerLetters[i] = c]
    ELSE c

Lower(s) == [i \in DOMAIN s |-> CharLower(s[i])]

Upper(s) == [i \in DOMAIN s |-> CharUpper(s[i])]

\* s[a:b] of Python for 0 <= a, with b clipped to len(s)
Slice(s, a, b) ==
    LET e == IF b > Len(s) THEN Len(s) ELSE b
    IN  IF a >= e THEN <<>> ELSE SubSeq(s, a + 1, e)

\* s.startswith(p)
StartsWith(s, p) == Len(p) <= Len(s) /\ SubSeq(s, 1, Len(p)) = p

\* sub occurs in s at 0-based position i
OccursAt(s, sub, i) ==
    /\ i >= 0
    /\ i + Len(sub) <= Len(s)
    /\ SubSeq(s, i + 1, i + Len(sub)) = sub

\* `sub in s`
Contains(s, sub) == \E i \in 0..Len(s) : OccursAt(s, sub, i)

\* s.rfind(sub, lo, hi): highest i >= lo with s[i:i+len(sub)] inside s[lo:hi], else -1
RFind(s, sub, lo, hi) ==
    LET h    == IF hi > Len(s) THEN Len(s) ELSE hi
        hits == {i \in lo..(h - Len(sub)) : OccursAt(s, sub, i)}
    IN  IF hits = {} THEN -1 ELSE CHOOSE i \in hits : \A j \in hits : j <= i

\* s.strip()
Strip(s) ==
    LET keep == {i \in DOMAIN s : s[i] \notin Whitespace}
    IN  IF keep = {} THEN <<>>
        ELSE LET lo == CHOOSE i \in keep : \A j \in keep : i <= j
                 hi == CHOOSE i \in keep : \A j \in keep : j <= i
             IN  SubSeq(s, lo, hi)

\* s.split(sep) for a one-character separator: always at least one piece
RECURSIVE SplitFrom(_, _, _)
SplitFrom(s, sep, cur) ==
    IF s = <<>> THEN <<cur>>
    ELSE IF Head(s) = sep THEN <<cur>> \o SplitFrom(Tail(s), sep, <<>>)
    ELSE SplitFrom(Tail(s), sep, Append(cur, Head(s)))

Split(s, sep) == SplitFrom(s, sep, <<>>)

\* sep.join(parts)
RECURSIVE Join(_, _)
Join(parts, sep) ==
    IF parts = <<>> THEN <<>>
    ELSE IF Len(parts) = 1 THEN parts[1]
    ELSE parts[1] \o sep \o Join(Tail(parts), sep)

\* s.replace(old, ""): every non-overlapping occurrence removed, left to right
RECURSIVE RemoveAll(_, _)
RemoveAll(s, old) ==
    IF s = <<>> THEN <<>>
    ELSE IF StartsWith(s, old) THEN RemoveAll(SubSeq(s, Len(old) + 1, Len(s)), old)
    ELSE <<Head(s)>> \o RemoveAll(Tail(s), old)

\* re.findall(r'\d+', s)[0]: the first maximal run of digits (<<>> when none)
FirstDigitRun(s) ==
    LET ds == {i \in DOMAIN s : IsDigit(s[i])}
    IN  IF ds = {} THEN <<>>
        ELSE LET lo   == CHOOSE i \in ds : \A j \in ds : i <= j
                 nond == {i \in lo..Len(s) : ~IsDigit(s[i])}
                 hi   == IF nond = {} THEN Len(s)
                         ELSE (CHOOSE i \in nond : \A j \in nond : i <= j) - 1
             IN  SubSeq(s, lo, hi)

\* int(run) for a run of decimal digits
RECURSIVE IntOf(_)
IntOf(run) ==
    IF run = <<>> THEN 0
    ELSE 10 * IntOf(SubSeq(run, 1, Len(run) - 1)) + DigitVal(run[Len(run)])

Min2(a, b) == IF a < b THEN a ELSE b

Max2(a, b) == IF a > b THEN a ELSE b


\* ------------------------------------------------------------------------
\* Provider reply parsing (claude_interface.py, openai_interface.py,
\* gemini_interface.py, openrouter_interface.py)
\* ------------------------------------------------------------------------
HdrAnswer == <<"A", "N", "S", "W", "E", "R", ":">>

HdrConfidence == <<"C", "O", "N", "F", "I", "D", "E", "N", "C", "E", ":">>

HdrReasoning == <<"R", "E", "A", "S", "O", "N", "I", "N", "G", ":">>

HighWords == {<<"h", "i", "g", "h">>, <<"v", "e", "r", "y", " ", "c", "o", "n", "f", "i", "d", "e", "n", "t">>, <<"c", "e", "r", "t", "a", "i", "n">>}

MediumWords == {<<"m", "e", "d", "i", "u", "m">>, <<"m", "o", "d", "e", "r", "a", "t", "e">>, <<"s", "o", "m", "e", "w", "h", "a", "t">>}

LowWords == {<<"l", "o", "w">>, <<"u", "n", "c", "e", "r", "t", "a", "i", "n">>, <<"u", "n", "c", "l", "e", "a", "r">>}

ContainsAny(s, words) == \E w \in words : Contains(s, w)

\* a variant of the extraction that looks for the keywords first
ClaudeExtractKeywordsFirst(confidence_text) ==
    LET numbers == FirstDigitRun(confidence_text)
        lower   == Lower(confidence_text)
    IN  IF ContainsAny(lower, HighWords) THEN 85
        ELSE IF ContainsAny(lower, MediumWords) THEN 65
        ELSE IF ContainsAny(lower, LowWords) THEN 35
        ELSE IF numbers # <<>> THEN Max2(0, Min2(100, IntOf(numbers)))
        ELSE 50

\* ClaudeInterface._extract_confidence_score
Claude_extract_confidence_score(confidence_text) ==
    LET numbers == FirstDigitRun(confidence_text)
        lower   == Lower(confidence_text)
    IN  IF numbers # <<>> THEN Max2(0, Min2(100, IntOf(numbers)))
        ELSE IF ContainsAny(lower, HighWords) THEN 85
        ELSE IF ContainsAny(lower, MediumWords) THEN 65
        ELSE IF ContainsAny(lower, LowWords) THEN 35
        ELSE 50

\* OpenAIInterface._extract_confidence_score
OpenAI_extract_confidence_score(confidence_text) ==
    LET numbers == FirstDigitRun(confidence_text)
        lower   == Lower(confidence_text)
    IN  IF numbers # <<>> THEN Max2(0, Min2(100, IntOf(numbers)))
        ELSE IF ContainsAny(lower, HighWords) THEN 85
        ELSE IF ContainsAny(lower, MediumWords) THEN 65
        ELSE IF ContainsAny(lower, LowWords) THEN 35
        ELSE 50

\* GeminiInterface._extract_confidence_score
Gemini_extract_confidence_score(confidence_text) ==
    LET numbers == FirstDigitRun(confidence_text)
        lower   == Lower(confidence_text)
    IN  IF numbers # <<>> THEN Max2(0, Min2(100, IntOf(numbers)))
        ELSE IF ContainsAny(lower, HighWords) THEN 85
        ELSE IF ContainsAny(lower, MediumWords) THEN 65
        ELSE IF ContainsAny(lower, LowWords) THEN 35
        ELSE 50

\* self._extract_confidence_score of the interface `name`
ExtractWith(name, confidence_text) ==
    CASE name = "claude" -> Claude_extract_confidence_score(confidence_text)
      [] name = "openai" -> OpenAI_extract_confidence_score(confidence_text)
      [] name = "gemini" -> Gemini_extract_confidence_score(confidence_text)

\* _clean_answer_text: blank lines dropped, every line trimmed
RECURSIVE StripNonBlank(_)
StripNonBlank(lines) ==
    IF lines = <<>> THEN <<>>
    ELSE IF Strip(Head(lines)) = <<>> THEN StripNonBlank(Tail(lines))
    ELSE <<Strip(Head(lines))>> \o StripNonBlank(Tail(lines))

CleanAnswerText(answer) ==
    IF answer = <<>> THEN <<>> ELSE Join(StripNonBlank(Split(answer, NL)), <<NL>>)

\* the dictionary `parsed` and current_section before the first line
ParsedDefaults ==
    [answer |-> <<>>, confidence |-> 50, reasoning |-> <<>>, current_section |-> "none"]

\* one iteration of `for line in sections` of _parse_response
ParseLine(p, rawline, name) ==
    LET line == Strip(rawline)
    IN  IF StartsWith(line, HdrAnswer)
        THEN LET content == Strip(RemoveAll(line, HdrAnswer))
             IN  [p EXCEPT !.current_section = "answer",
                           !.answer = IF content # <<>> THEN content ELSE @]
        ELSE IF StartsWith(line, HdrConfidence)
        THEN [p EXCEPT !.current_section = "confidence",
                       !.confidence = ExtractWith(name, Strip(RemoveAll(line, HdrConfidence)))]
        ELSE IF StartsWith(line, HdrReasoning)
        THEN LET content == Strip(RemoveAll(line, HdrReasoning))
             IN  [p EXCEPT !.current_section = "reasoning",
                           !.reasoning = IF content # <<>> THEN content ELSE @]
        ELSE IF line # <<>> /\ p.current_section = "answer"
        THEN [p EXCEPT !.answer = IF @ # <<>> THEN @ \o <<NL>> \o line ELSE line]
        ELSE IF line # <<>> /\ p.current_section = "reasoning"
        THEN [p EXCEPT !.reasoning = IF @ # <<>> THEN @ \o <<SP>> \o line ELSE line]
        ELSE p

\* a variant of the last step that returns the cleaned answer as it is
EnsureAnswerNoFallback(cleaned, response_text) == cleaned

\* `if not parsed["answer"]: parsed["answer"] = response_text`
EnsureAnswer(cleaned, response_text) ==
    IF cleaned = <<>> THEN response_text ELSE cleaned

\* the body of _parse_response shared word for word by the three
\* interfaces, for the interface `name`
ParseSections(response_text, name) ==
    LET lines   == Split(response_text, NL)
        after[i \in 0..Len(lines)] ==
            IF i = 0 THEN ParsedDefaults ELSE ParseLine(after[i - 1], lines[i], name)
        p       == after[Len(lines)]
        cleaned == CleanAnswerText(p.answer)
    IN  [answer     |-> EnsureAnswer(cleaned, response_text),
         confidence |-> p.confidence,
         reasoning  |-> p.reasoning]

Claude_parse_response(response_text) ==
    ParseSections(response_text, "claude")

OpenAI_parse_response(response_text) ==
    ParseSections(response_text, "openai")

Gemini_parse_response(response_text) ==
    ParseSections(response_text, "gemini")

\* OpenRouterInterface._parse_response
OpenRouterDefaultReasoning == <<"S", "t", "a", "n", "d", "a", "r", "d", " ", "r", "e", "s", "p", "o", "n", "s", "e", " ", "c", "o", "n", "f", "i", "d", "e", "n", "c", "e">>

OpenRouterDefaultConfidence == 70

\* `if current_section and current_content: sections[current_section] = ...`
ORFlush(st) ==
    IF st.current_section # "none" /\ st.current_content # <<>>
    THEN (st.current_section :> Strip(Join(st.current_content, <<NL>>))) @@ st.sections
    ELSE st.sections

OROpen(st, line, name, hdrlen) ==
    [sections        |-> ORFlush(st),
     current_section |-> name,
     current_content |-> IF Len(line) > hdrlen
                         THEN <<Strip(Slice(line, hdrlen, Len(line)))>> ELSE <<>>]

ORLine(st, rawline) ==
    LET line == Strip(rawline)
    IN  IF StartsWith(Upper(line), HdrAnswer) THEN OROpen(st, line, "answer", 7)
        ELSE IF StartsWith(Upper(line), HdrConfidence) THEN OROpen(st, line, "confidence", 11)
        ELSE IF StartsWith(Upper(line), HdrReasoning) THEN OROpen(st, line, "reasoning", 10)
        ELSE IF st.current_section # "none" /\ line # <<>>
        THEN [st EXCEPT !.current_content = Append(@, line)]
        ELSE st

RECURSIVE ORLines(_, _)
ORLines(st, lines) ==
    IF lines = <<>> THEN st ELSE ORLines(ORLine(st, Head(lines)), Tail(lines))

OpenRouter_parse_response(response_text) ==
    LET st0      == [sections |-> <<>>, current_section |-> "none", current_content |-> <<>>]
        st       == ORLines(st0, Split(Strip(response_text), NL))
        sections == ORFlush(st)
        has(k)   == k \in DOMAIN sections
        numbers  == IF has("confidence") THEN FirstDigitRun(sections["confidence"]) ELSE <<>>
    IN  [answer     |-> IF has("answer") /\ sections["answer"] # <<>>
                        THEN sections["answer"] ELSE Strip(response_text),
         confidence |-> IF numbers # <<>> THEN Min2(100, Max2(0, IntOf(numbers)))
                        ELSE OpenRouterDefaultConfidence,
         reasoning  |-> IF has("reasoning") /\ sections["reasoning"] # <<>>
                        THEN sections["reasoning"] ELSE OpenRouterDefaultReasoning]


\* ------------------------------------------------------------------------
\* Text chunking (pdf_processor.py).  Positions are Python's, from 0.
\* ------------------------------------------------------------------------
SentenceLookback == 200

WordLookback == 100

SentenceEndings ==
    <<<<".", " ">>, <<"!", " ">>, <<"?", " ">>, <<".", NL>>, <<"!", NL>>, <<"?", NL>>>>

\* PDFProcessor._find_sentence_boundary
FindSentenceBoundary(t, start_, end_) ==
    LET search_start == Max2(start_, end_ - SentenceLookback)
        best[k \in 0..Len(SentenceEndings)] ==
            IF k = 0 THEN start_
            ELSE LET pos == RFind(t, SentenceEndings[k], search_start, end_)
                 IN  IF pos > best[k - 1] THEN pos + Len(SentenceEndings[k])
                     ELSE best[k - 1]
        best_pos == best[Len(SentenceEndings)]
    IN  IF best_pos > start_ THEN best_pos ELSE end_

\* PDFProcessor._find_word_boundary
FindWordBoundary(t, start_, end_) ==
    LET search_start == Max2(start_, end_ - WordLookback)
        pos == RFind(t, <<SP>>, search_start, end_)
    IN  IF pos > start_ THEN pos + 1 ELSE end_

\* the end of the chunk that begins at start_
ChunkEnd(t, start_, size) ==
    LET end_ == start_ + size
    IN  IF end_ < Len(t)
        THEN LET sentence_end == FindSentenceBoundary(t, start_, end_)
             IN  IF sentence_end > start_ THEN sentence_end
                 ELSE LET word_end == FindWordBoundary(t, start_, end_)
                      IN  IF word_end > start_ THEN word_end ELSE end_
        ELSE end_

\* a variant of the extraction that keeps the window as it is
ExtractChunkUnstripped(t, start_, end_) == Slice(t, start_, end_)

\* `chunk = text[start:end].strip()`
ExtractChunk(t, start_, end_) == Strip(Slice(t, start_, end_))

\* `if chunk: chunks.append(chunk)`
KeepChunk(chunks_, chunk) == IF chunk # <<>> THEN Append(chunks_, chunk) ELSE chunks_

\* a variant of the advance that begins one character after the overlap
NextStartPastEnd(start_, end_, overlap) == Max2(start_ + 1, end_ - overlap + 1)

\* a variant of the advance that steps back one character further
NextStartWiderOverlap(start_, end_, overlap) == Max2(start_ + 1, end_ - overlap - 1)

\* a variant of the advance without the floor start + 1
NextStartNoFloor(start_, end_, overlap) == end_ - overlap

\* `start = max(start + 1, end - self.chunk_overlap)`
NextStart(start_, end_, overlap) == Max2(start_ + 1, end_ - overlap)


\* ------------------------------------------------------------------------
\* Embeddings and cosine similarity (embedding_store.py)
\*
\* An embedding is a short integer vector.  A cosine c is kept exactly as
\* the rational sgn(c)*c^2 = num/den (den > 0): x |-> sgn(x)*x^2 is strictly
\* increasing, so every comparison of two scores and of a score with a
\* threshold is the comparison the code makes on the floats.
\* ------------------------------------------------------------------------
Dot(a, b) == a[1] * b[1] + a[2] * b[2]

Sgn(x) == IF x > 0 THEN 1 ELSE IF x < 0 THEN -1 ELSE 0

\* EmbeddingStore._cosine_similarity: 0.0 when either norm is zero
CosineSimilarity(a, b) ==
    LET dot_product == Dot(a, b)
        norm_a2     == Dot(a, a)
        norm_b2     == Dot(b, b)
    IN  IF norm_a2 = 0 \/ norm_b2 = 0 THEN [num |-> 0, den |-> 1]
        ELSE [num |-> Sgn(dot_product) * dot_product * dot_product,
              den |-> norm_a2 * norm_b2]

\* a threshold written p/q (q > 0), e.g. 1/10 for 0.1, on the same scale
Threshold(p, q) == [num |-> Sgn(p) * p * p, den |-> q * q]

\* x >= y for two values on that scale
SimGE(x, y) == x.num * y.den >= y.num * x.den

\* list.sort(key=similarity, reverse=True): stable, descending.  Row i goes
\* after the rows that score higher and after the earlier rows that score
\* the same.
SortRank(rows, i) ==
    Cardinality({j \in DOMAIN rows :
                    \/ ~SimGE(rows[i].similarity, rows[j].similarity)
                    \/ (j < i /\ SimGE(rows[j].similarity, rows[i].similarity))}) + 1

PlaceByRank(rows, ranks) ==
    [k \in DOMAIN rows |-> rows[CHOOSE i \in DOMAIN rows : ranks[i] = k]]

SortBySimilarityDesc(rows) ==
    PlaceByRank(rows, SubSeq([i \in DOMAIN rows |-> SortRank(rows, i)], 1, Len(rows)))

\* seq[:limit] of Python, a negative limit counted from the end
PyPrefix(seq, limit) ==
    IF limit >= 0 THEN SubSeq(seq, 1, Min2(limit, Len(seq)))
    ELSE SubSeq(seq, 1, Max2(0, Len(seq) + limit))

\* Database.get_all_chunks_with_embeddings(limit): the first `limit` rows of
\* the chunks table in table order, each joined with its pdfs row
DbGetAllChunksWithEmbeddings(pdf_rows, chunk_rows, limit) ==
    LET got == SubSeq(chunk_rows, 1, Min2(limit, Len(chunk_rows)))
    IN  [i \in DOMAIN got |->
            [pdf_id          |-> got[i].pdf_id,
             chunk_index     |-> got[i].chunk_index,
             embedding       |-> got[i].embedding,
             is_confidential |-> \E d \in pdf_rows :
                                    d.id = got[i].pdf_id /\ d.is_confidential]]

\* the scan width search_similar_chunks passes to the database
ScanLimit == 50

\* one fetched row with its score for the query
Scored(row, query_embedding) ==
    [pdf_id          |-> row.pdf_id,
     chunk_index     |-> row.chunk_index,
     is_confidential |-> row.is_confidential,
     similarity      |-> CosineSimilarity(query_embedding, row.embedding)]

\* the loop of search_similar_chunks over the fetched rows: every row is
\* scored, the rows at or above min_similarity are kept, in fetch order
ScoreAndFilter(fetched, query_embedding, min_similarity) ==
    LET Keep(r) == SimGE(r.similarity, min_similarity)
    IN  SelectSeq(SubSeq([i \in DOMAIN fetched |-> Scored(fetched[i], query_embedding)],
                         1, Len(fetched)), Keep)

\* a variant of the search that sorts the kept rows and returns them all
SearchSimilarChunksUncut(pdf_rows, chunk_rows, query_embedding, limit, min_similarity) ==
    SortBySimilarityDesc(
        ScoreAndFilter(DbGetAllChunksWithEmbeddings(pdf_rows, chunk_rows, ScanLimit),
                       query_embedding, min_similarity))

\* EmbeddingStore.search_similar_chunks after the query has been embedded:
\* score every fetched row, keep those at or above min_similarity, sort, cut
SearchSimilarChunks(pdf_rows, chunk_rows, query_embedding, limit, min_similarity) ==
    PyPrefix(
        SortBySimilarityDesc(
            ScoreAndFilter(DbGetAllChunksWithEmbeddings(pdf_rows, chunk_rows, ScanLimit),
                           query_embedding, min_similarity)),
        limit)


\* ------------------------------------------------------------------------
\* Ingestion: EmbeddingStore.store_chunks and the per-file body of
\* upload_pdfs (embedding_store.py, main.py, database.py)
\*
\* A file is given by what its processing yields: the embeddings the model
\* computes for its chunks (one per chunk, in chunk order), its
\* confidentiality flag, and the faults met on the way:
\*   stage      "save" | "extract" | "metadata" | "none": the call that raises
\*   batch_fail the batches (numbered from 1) whose batch encode raises
\*   item_fail  the chunks (numbered from 1) whose single encode raises
\*   store_fail the chunks whose single insert raises
\* ------------------------------------------------------------------------
BatchSize == 16

BatchOf(i) == ((i - 1) \div BatchSize) + 1

NoEmbedding == <<>>

\* the embedding phase: all_embeddings, aligned with the chunks; None for a
\* chunk whose batch failed and whose single retry failed too
AllEmbeddings(embeddings, batch_fail, item_fail) ==
    [i \in DOMAIN embeddings |->
        IF BatchOf(i) \in batch_fail /\ i \in item_fail THEN NoEmbedding
        ELSE embeddings[i]]

\* a variant of the batch step that leaves out a chunk whose retry failed
EmbedBatchDroppingFailures(all, embeddings, i, batch_fail, item_fail) ==
    IF (i \div BatchSize) + 1 \notin batch_fail
    THEN all \o Slice(embeddings, i, i + BatchSize)
    ELSE all \o SelectSeq(Slice(embeddings, i, i + BatchSize),
                           LAMBDA e : \A k \in item_fail : embeddings[k] # e)

\* one iteration of `for i in range(0, len(chunk_texts), batch_size)` on
\* the list all_embeddings: the batch call extends it with the embeddings of
\* chunk_texts[i:i + batch_size]; when the batch call raises, each text of
\* the batch is embedded alone and appends its embedding or None
EmbedBatch(all, embeddings, i, batch_fail, item_fail) ==
    IF (i \div BatchSize) + 1 \notin batch_fail
    THEN all \o Slice(embeddings, i, i + BatchSize)
    ELSE all \o [k \in 1..Len(Slice(embeddings, i, i + BatchSize)) |->
                    IF (i + k) \in item_fail THEN NoEmbedding
                    ELSE Slice(embeddings, i, i + BatchSize)[k]]

\* the positions (from 1) of the texts embedded alone in that iteration
RetriedInBatch(n, i, batch_fail) ==
    IF (i \div BatchSize) + 1 \notin batch_fail THEN {}
    ELSE (i + 1)..Min2(i + BatchSize, n)

\* a variant of the failure-rate test that also aborts at exactly 10%
TooManyFailuresInclusive(failed_chunks, n) == failed_chunks * 10 >= n

\* `failed_chunks > len(chunks) * 0.1`
TooManyFailures(failed_chunks, n) == failed_chunks * 10 > n

\* the second half of store_chunks, from `successful_chunks = 0` on, for n
\* chunks and the list all_embeddings: the rows appended to the chunks table
\* and whether the call raised.  db.store_chunks_batch is no method of
\* Database: the batch insert raises and every chunk goes through
\* db.store_chunk_embedding
InsertChunks(pdf_id, n, all, store_fail) ==
    LET paired       == 1..Min2(n, Len(all))
        failed_embed == Cardinality({i \in paired : all[i] = NoEmbedding})
        Stored(i)    == all[i] # NoEmbedding /\ i \notin store_fail
        idx          == SelectSeq([i \in paired |-> i], Stored)
        rows         == [k \in DOMAIN idx |->
                            [pdf_id      |-> pdf_id,
                             chunk_index |-> idx[k] - 1,
                             embedding   |-> all[idx[k]]]]
    IN  IF TooManyFailures(failed_embed, n)
        THEN [rows |-> <<>>, raised |-> TRUE]
        ELSE [rows |-> rows, raised |-> Len(rows) = 0]

\* store_chunks(pdf_id, chunks): the rows appended to the chunks table and
\* whether the call raised
StoreChunks(pdf_id, f) ==
    LET n              == Len(f.embeddings)
        all_embeddings == AllEmbeddings(f.embeddings, f.batch_fail, f.item_fail)
        failed_embed   == Cardinality({i \in 1..n : all_embeddings[i] = NoEmbedding})
        \* db.store_chunks_batch is no method of Database: the batch insert
        \* raises and every chunk goes through db.store_chunk_embedding
        Stored(i)      == all_embeddings[i] # NoEmbedding /\ i \notin f.store_fail
        idx            == SelectSeq([i \in 1..n |-> i], Stored)
        rows           == [k \in DOMAIN idx |->
                              [pdf_id      |-> pdf_id,
                               chunk_index |-> idx[k] - 1,
                               embedding   |-> all_embeddings[idx[k]]]]
    IN  IF TooManyFailures(failed_embed, n)
        THEN [rows |-> <<>>, raised |-> TRUE]
        ELSE [rows |-> rows, raised |-> Len(rows) = 0]

\* SKIP_EMBEDDINGS of the environment (unset: "false")
SkipEmbeddings == FALSE

\* a variant in which the chunks of the new document replace the table
AfterEmbeddingReplacingChunks(st, f, sc) ==
    [pdfs    |-> st.pdfs \cup {[id |-> st.next_id, is_confidential |-> f.is_confidential,
                                chunk_count |-> Len(f.embeddings)]},
     chunks  |-> IF sc.rows = <<>> THEN st.chunks ELSE sc.rows,
     next_id |-> st.next_id + 1,
     entry   |-> IF sc.raised THEN [status |-> "error", pdf_id |-> 0]
                 ELSE [status |-> "success", pdf_id |-> st.next_id]]

\* the store and the result entry once the metadata row is in and the
\* embedding step ended as sc
AfterEmbedding(st, f, sc) ==
    [pdfs    |-> st.pdfs \cup {[id |-> st.next_id, is_confidential |-> f.is_confidential,
                                chunk_count |-> Len(f.embeddings)]},
     chunks  |-> st.chunks \o sc.rows,
     next_id |-> st.next_id + 1,
     entry   |-> IF sc.raised THEN [status |-> "error", pdf_id |-> 0]
                 ELSE [status |-> "success", pdf_id |-> st.next_id]]

\* a file whose save, extraction or metadata insert raised
FileFailed(st) ==
    [pdfs |-> st.pdfs, chunks |-> st.chunks, next_id |-> st.next_id,
     entry |-> [status |-> "error", pdf_id |-> 0]]

\* a variant of the loop body that embeds every document, whatever its flag
ProcessFileIgnoringFlag(st, f) ==
    IF f.stage \in {"save", "extract", "metadata"} THEN FileFailed(st)
    ELSE AfterEmbedding(st, f, StoreChunks(st.next_id, f))

\* one iteration of the loop of upload_pdfs on the store st =
\* [pdfs, chunks, next_id]: the store afterwards and the result entry
ProcessFile(st, f) ==
    IF f.stage \in {"save", "extract", "metadata"} THEN FileFailed(st)
    ELSE AfterEmbedding(st, f, IF ~f.is_confidential /\ ~SkipEmbeddings
                               THEN StoreChunks(st.next_id, f)
                               ELSE [rows |-> <<>>, raised |-> FALSE])

\* the loop of upload_pdfs over the files of one request, in input order:
\* the store afterwards and the entries, `done` being those so far
Record(one, done) ==
    [pdfs |-> one.pdfs, chunks |-> one.chunks, next_id |-> one.next_id,
     results |-> Append(done.results, one.entry)]

RECURSIVE ProcessFiles(_, _)
ProcessFiles(st, files) ==
    IF files = <<>> THEN st
    ELSE ProcessFiles(Record(ProcessFile(st, Head(files)), st), Tail(files))


\* ------------------------------------------------------------------------
\* The service: state, inputs and request handlers (main.py, query_engine.py)
\* ------------------------------------------------------------------------
VARIABLES
    pdfs,        \* rows of the pdfs table: [id, is_confidential, chunk_count]
    chunks,      \* rows of the chunks table, in table order
    next_pdf_id, \* the id the database gives the next pdfs row
    clients,     \* the provider interfaces whose client has been created
    upload,      \* the upload request in flight: files left, entries so far
    response,    \* what the last finished request returned
    reply,       \* reply parsing: the provider's reply text
    layout,      \* reply parsing: how the reply text was laid out
    parsed,      \* reply parsing: the last _parse_response result
    conf_text,   \* confidence extraction: the text after CONFIDENCE:
    conf_score,  \* confidence extraction: the last extracted score
    text,        \* chunker: the extracted document text
    chunk_size,  \* chunker: PDFProcessor.chunk_size
    chunk_overlap, \* chunker: PDFProcessor.chunk_overlap
    start,       \* chunker: loop variable start
    windows,     \* chunker: the [start, end) cut so far, in order
    out_chunks,  \* chunker: the list `chunks` being returned
    split_pc,    \* chunker: "entry" | "loop" | "done"
    lc_pc,       \* full-document engine: "idle" | "list" | "loop" | "consolidate" | "done"
    lc_ai_model, \* full-document engine: ai_model of the request
    pdf_files,   \* full-document engine: the documents the database listed
    pdf_index,   \* full-document engine: documents the loop has passed
    pdf_responses,    \* full-document engine: the list pdf_responses
    processed_count,  \* full-document engine: the counter processed_count
    langchain_models, \* full-document engine: self.langchain_models
    lc_log,      \* full-document engine: downloads and provider calls made
    consolidated,     \* full-document engine: what _consolidate_responses returned
    lc_result,   \* full-document engine: what answer_question returned
    st_pc,       \* store_chunks: "idle" | "embed" | "insert" | "done"
    st_input,    \* store_chunks: the chunks and the failures the call meets
    st_i,        \* store_chunks: loop variable i of the batch loop
    all_embeddings,   \* store_chunks: the list all_embeddings
    retried,     \* store_chunks: chunk positions embedded one by one
    st_raised,   \* store_chunks: whether the call raised
    up_files,    \* one upload request: the files of the request, in input order
    ask_in,      \* one question: its settings and what its search and provider meet
    engines,     \* concurrent requests: the QueryEngine objects, 0 the module-level one
    reqs,        \* concurrent requests: position and locals of each request
    loop         \* concurrent requests: the request that holds the event loop

serviceVars == <<pdfs, chunks, next_pdf_id, clients, upload, response>>

parseVars == <<reply, layout, parsed>>

confVars == <<conf_text, conf_score>>

chunkerVars == <<text, chunk_size, chunk_overlap, start, windows, out_chunks, split_pc>>

lcVars == <<lc_pc, lc_ai_model, pdf_files, pdf_index, pdf_responses, processed_count,
            langchain_models, lc_log, consolidated, lc_result>>

storeVars == <<st_pc, st_input, st_i, all_embeddings, retried, st_raised>>

requestVars == <<up_files, ask_in, engines, reqs, loop>>

vars == <<serviceVars, parseVars, confVars, chunkerVars, lcVars, storeVars, requestVars>>

\* ---- bounds and input sets ---------------------------------------------
MaxPdfs == 2

MaxFileChunks == 1

MaxFilesPerRequest == 1

MaxLimit == 2

EmbSet == {<<1, 0>>, <<1, 1>>, <<0, 1>>}

\* the embedding the model computes for the i-th chunk text of a file
ChunkEmbedding(i) == <<<<1, 0>>, <<1, 1>>, <<0, 1>>>>[((i - 1) % 3) + 1]

FaultScenarios ==
    {[stage |-> s, batch_fail |-> {}, item_fail |-> {}, store_fail |-> {}] :
        s \in {"none", "save", "extract", "metadata"}}
    \cup
    {[stage |-> "none", batch_fail |-> {1}, item_fail |-> i, store_fail |-> {}] :
        i \in SUBSET {1}}
    \cup
    {[stage |-> "none", batch_fail |-> {}, item_fail |-> {}, store_fail |-> {1}]}

\* a file of one upload request.  A file whose save, text extraction or
\* metadata insert fails never reaches its flag or its chunks.
FileInputs ==
    {[embeddings |-> <<>>, is_confidential |-> FALSE,
      stage |-> s, batch_fail |-> {}, item_fail |-> {}, store_fail |-> {}] :
        s \in {"save", "extract", "metadata"}}
    \cup
    {[embeddings |-> [i \in 1..n |-> ChunkEmbedding(i)], is_confidential |-> c,
      stage |-> x.stage, batch_fail |-> x.batch_fail,
      item_fail |-> x.item_fail, store_fail |-> x.store_fail] :
        n \in 0..MaxFileChunks, c \in BOOLEAN,
        x \in {y \in FaultScenarios : y.stage = "none"}}

\* min_similarity values: 0.0 (default of search_similar_chunks), 0.1 (the
\* QueryEngine threshold) and 0.8
MinSimilarities == {Threshold(0, 1), Threshold(1, 10), Threshold(8, 10)}

\* min_similarity when search_similar_chunks is given none: 0.0
DefaultMinSimilarity == Threshold(0, 1)

\* QueryEngine.min_similarity_threshold = 0.1
QueryEngineMinSimilarity == Threshold(1, 10)

\* maxChunks when the request gives none
DefaultMaxChunks == 20

\* limit when search_similar_chunks is given none
DefaultLimit == 5

ReplyWellFormed == <<"A", "N", "S", "W", "E", "R", ":", " ", "F", "o", "o", "\n", "C", "O", "N", "F", "I", "D", "E", "N", "C", "E", ":", " ", "8", "0", "\n", "R", "E", "A", "S", "O", "N", "I", "N", "G", ":", " ", "B", "a", "r">>

\* reply texts of the full-document engine's provider calls: confidence 99,
\* confidence 40, and a text without any header
ReplyUp99 ==
    <<"A", "N", "S", "W", "E", "R", ":", SP, "U", "p", NL, "C", "O", "N",
      "F", "I", "D", "E", "N", "C", "E", ":", SP, "9", "9">>

ReplyDown40 ==
    <<"A", "N", "S", "W", "E", "R", ":", SP, "D", "n", NL, "C", "O", "N",
      "F", "I", "D", "E", "N", "C", "E", ":", SP, "4", "0">>

ReplyPlain ==
    <<"H", "m">>

LcReplies == {ReplyUp99, ReplyDown40, ReplyPlain}

\* ---- provider selection and the provider call --------------------------
\* the environment: ANTHROPIC_API_KEY is set, OPENAI_API_KEY and
\* GEMINI_API_KEY are not
ApiKeys == {"ANTHROPIC_API_KEY"}

\* the four module-level interface objects of main.py, the OpenAIInterface()
\* of the full-document engine, and the key each needs
KeyOf(interface) ==
    CASE interface = "claude_interface"       -> "ANTHROPIC_API_KEY"
      [] interface = "openai_gpt4_interface"  -> "OPENAI_API_KEY"
      [] interface = "openai_gpt35_interface" -> "OPENAI_API_KEY"
      [] interface = "gemini_interface"       -> "GEMINI_API_KEY"
      [] interface = "openai_interface"       -> "OPENAI_API_KEY"

\* a variant of the selection that sends an unrecognised string to Gemini
get_ai_interface_last_branch(model_type) ==
    IF model_type = "openai-gpt4" THEN "openai_gpt4_interface"
    ELSE IF model_type = "openai-gpt35" THEN "openai_gpt35_interface"
    ELSE IF model_type = "claude" THEN "claude_interface"
    ELSE "gemini_interface"

\* get_ai_interface(model_type)
get_ai_interface(model_type) ==
    IF model_type = "openai-gpt4" THEN "openai_gpt4_interface"
    ELSE IF model_type = "openai-gpt35" THEN "openai_gpt35_interface"
    ELSE IF model_type = "gemini-pro" THEN "gemini_interface"
    ELSE "claude_interface"

\* aiModel of a request: the recognised strings, "claude", an unknown
\* string and the empty string
AiModels == {"claude", "openai-gpt4", "openai-gpt35", "gemini-pro", "llama", ""}

Interfaces ==
    {"claude_interface", "openai_gpt4_interface", "openai_gpt35_interface",
     "gemini_interface", "openai_interface"}

\* the reply texts the provider API returns in the service model
Replies == {ReplyWellFormed}

\* _parse_response of each interface object on each reply text (a table of
\* the parser's results, computed once)
ReplyParses ==
    [i \in Interfaces |-> [r \in Replies \cup LcReplies |->
        CASE i = "claude_interface" -> Claude_parse_response(r)
          [] i = "gemini_interface" -> Gemini_parse_response(r)
          [] OTHER                  -> OpenAI_parse_response(r)]]

InterfaceParse(interface, response_text) == ReplyParses[interface][response_text]

\* the dictionary generate_answer returns for the parsed reply p
ProviderAnswer(p, context_chunks) ==
    [raised |-> FALSE, error |-> "", has_client |-> TRUE,
     invoked |-> TRUE, sources_used |-> Len(context_chunks),
     answer |-> p.answer, confidence |-> p.confidence, reasoning |-> p.reasoning]

\* <Interface>.generate_answer(question, context_chunks): `api` is what the
\* provider's API does on this call: [fails |-> TRUE] when the call raises,
\* else the reply text in api.text.  Gives the returned dictionary, or the
\* exception that leaves the method, whether the client now exists, whether
\* the provider's API was called and with how many context chunks.
GenerateAnswer(interface, has_client, context_chunks, api) ==
    IF ~has_client /\ KeyOf(interface) \notin ApiKeys
    THEN \* initialize() raises ValueError, outside the try of generate_answer
         [raised |-> TRUE, error |-> "API key must be set in environment variables",
          has_client |-> FALSE, invoked |-> FALSE, sources_used |-> 0,
          answer |-> <<>>, confidence |-> 0, reasoning |-> <<>>]
    ELSE IF api.fails
    THEN [raised |-> TRUE, error |-> "Failed to generate answer",
          has_client |-> TRUE, invoked |-> TRUE, sources_used |-> Len(context_chunks),
          answer |-> <<>>, confidence |-> 0, reasoning |-> <<>>]
    ELSE ProviderAnswer(InterfaceParse(interface, api.text), context_chunks)


ApiOutcomes ==
    {[fails |-> TRUE, text |-> <<>>]} \cup {[fails |-> FALSE, text |-> r] : r \in Replies}

\* what embedding the question and reading the store do on one search:
\* fault "embed": _generate_embedding raises; fault "db": the database read
\* raises inside get_all_chunks_with_embeddings, which then returns []
SearchInputs ==
    {[fault |-> f, query_embedding |-> q] : f \in {"none"}, q \in EmbSet}
    \cup {[fault |-> f, query_embedding |-> <<1, 0>>] : f \in {"embed", "db"}}

\* the searches made through POST /ask-question in the service model
AskSearchInputs ==
    {x \in SearchInputs : x.query_embedding = <<1, 0>> /\ x.fault \in {"none", "embed"}}

\* EmbeddingStore.search_similar_chunks(query, limit, min_similarity): a
\* failing database read makes get_all_chunks_with_embeddings return []
EmbeddingStoreSearch(pdf_rows, chunk_rows, sin, limit, min_similarity) ==
    IF sin.fault = "embed" THEN [raised |-> TRUE, results |-> <<>>]
    ELSE [raised |-> FALSE,
          results |-> SearchSimilarChunks(pdf_rows,
                                          IF sin.fault = "db" THEN <<>> ELSE chunk_rows,
                                          sin.query_embedding, limit, min_similarity)]

\* the except of _retrieve_relevant_chunks: a failing search gives []
AbsorbSearchFailure(found) == IF found.raised THEN <<>> ELSE found.results

\* QueryEngine._retrieve_relevant_chunks
RetrieveRelevantChunks(pdf_rows, chunk_rows, sin, max_context_chunks) ==
    AbsorbSearchFailure(EmbeddingStoreSearch(pdf_rows, chunk_rows, sin, max_context_chunks,
                                             QueryEngineMinSimilarity))

\* QueryEngine._build_source_info: one entry per chunk, in order
BuildSourceInfo(relevant_chunks) ==
    [i \in DOMAIN relevant_chunks |->
        [pdf_id          |-> relevant_chunks[i].pdf_id,
         chunk_index     |-> relevant_chunks[i].chunk_index,
         is_confidential |-> relevant_chunks[i].is_confidential,
         relevance_score |-> relevant_chunks[i].similarity]]

\* step 3 of answer_question: the response built from the provider's
\* result g and the retrieved chunks
AssembleResponse(g, relevant_chunks) ==
    [raised       |-> g.raised,
     error        |-> g.error,
     has_client   |-> g.has_client,
     invoked      |-> g.invoked,
     sources_used |-> g.sources_used,
     apology      |-> FALSE,
     answer       |-> g.answer,
     confidence   |-> g.confidence,
     sources      |-> IF g.raised THEN <<>> ELSE BuildSourceInfo(relevant_chunks),
     chunks_found |-> IF g.raised THEN 0 ELSE Len(relevant_chunks)]

\* steps 2 and 3 of answer_question on the retrieved chunks
AnswerFrom(interface, has_client, relevant_chunks, api) ==
    AssembleResponse(GenerateAnswer(interface, has_client, relevant_chunks, api),
                     relevant_chunks)

\* a variant of the try block in which a failing search is not absorbed by
\* _retrieve_relevant_chunks and ends the try block
AnswerQuestionTryPropagating(interface, has_client, max_context_chunks, pdf_rows, chunk_rows, sin, api) ==
    IF EmbeddingStoreSearch(pdf_rows, chunk_rows, sin, max_context_chunks,
                            QueryEngineMinSimilarity).raised
    THEN [raised |-> TRUE, error |-> "Failed to search similar chunks",
          has_client |-> has_client, invoked |-> FALSE, sources_used |-> 0,
          apology |-> FALSE, answer |-> <<>>, confidence |-> 0,
          sources |-> <<>>, chunks_found |-> 0]
    ELSE AnswerFrom(interface, has_client,
                    RetrieveRelevantChunks(pdf_rows, chunk_rows, sin, max_context_chunks), api)

\* the try block of QueryEngine.answer_question (steps 1 to 3)
AnswerQuestionTry(interface, has_client, max_context_chunks, pdf_rows, chunk_rows, sin, api) ==
    AnswerFrom(interface, has_client,
               RetrieveRelevantChunks(pdf_rows, chunk_rows, sin, max_context_chunks), api)

\* the except block of QueryEngine.answer_question
AnswerQuestionExcept(t) ==
    [raised       |-> FALSE,
     error        |-> t.error,
     has_client   |-> t.has_client,
     invoked      |-> t.invoked,
     sources_used |-> t.sources_used,
     apology      |-> TRUE,
     answer       |-> <<>>,
     confidence   |-> 0,
     sources      |-> <<>>,
     chunks_found |-> 0]

\* a variant of answer_question without its except block
AnswerQuestionNoExcept(interface, has_client, max_context_chunks, pdf_rows, chunk_rows, sin, api) ==
    AnswerQuestionTry(interface, has_client, max_context_chunks,
                      pdf_rows, chunk_rows, sin, api)

\* what leaves answer_question when its try block ended as t
CatchAll(t) == IF t.raised THEN AnswerQuestionExcept(t) ELSE t

\* QueryEngine.answer_question
AnswerQuestion(interface, has_client, max_context_chunks, pdf_rows, chunk_rows, sin, api) ==
    CatchAll(AnswerQuestionTry(interface, has_client, max_context_chunks,
                               pdf_rows, chunk_rows, sin, api))

NoUpload == [active |-> FALSE, remaining |-> 0, results |-> <<>>]

Idle == [op |-> "none"]

\* ---- the service -------------------------------------------------------
OtherIdle ==
    /\ reply = <<>> /\ layout = <<>> /\ parsed = <<>>
    /\ conf_text = <<>> /\ conf_score = <<>>
    /\ text = <<>> /\ chunk_size = 1 /\ chunk_overlap = 0
    /\ start = 0 /\ windows = <<>> /\ out_chunks = <<>> /\ split_pc = "done"

\* no store_chunks call in progress
StoreIdle ==
    /\ st_pc = "idle"
    /\ st_input = <<>>
    /\ st_i = 0
    /\ all_embeddings = <<>>
    /\ retried = {}
    /\ st_raised = FALSE

\* no request under observation
RequestIdle ==
    /\ up_files = <<>>
    /\ ask_in = <<>>
    /\ engines = <<>>
    /\ reqs = <<>>
    /\ loop = "none"

\* the full-document engine as constructed, before any request
LcIdle ==
    /\ lc_pc = "idle"
    /\ lc_ai_model = ""
    /\ pdf_files = <<>>
    /\ pdf_index = 0
    /\ pdf_responses = <<>>
    /\ processed_count = 0
    /\ langchain_models = <<>>
    /\ lc_log = <<>>
    /\ consolidated = <<>>
    /\ lc_result = <<>>

ServiceInit ==
    /\ LcIdle
    /\ StoreIdle
    /\ RequestIdle
    /\ pdfs = {}
    /\ chunks = <<>>
    /\ next_pdf_id = 1
    /\ clients = {}
    /\ upload = NoUpload
    /\ response = Idle

Init == ServiceInit /\ OtherIdle

\* POST /upload-pdfs arrives with nfiles files and nflags flags
UploadBegin(nfiles, nflags) ==
    /\ ~upload.active
    /\ IF nfiles # nflags
       THEN /\ response' = [op |-> "upload", status |-> 400, results |-> <<>>]
            /\ UNCHANGED upload
       ELSE /\ upload' = [active |-> TRUE, remaining |-> nfiles, results |-> <<>>]
            /\ response' = Idle
    /\ UNCHANGED <<pdfs, chunks, next_pdf_id, clients>>
    /\ UNCHANGED <<parseVars, confVars, chunkerVars, lcVars, storeVars, requestVars>>

\* a variant of the loop that ends the request at the first file that fails
UploadFileAbortOnError(f) ==
    /\ upload.active
    /\ upload.remaining > 0
    /\ f.stage \in {"save", "extract", "metadata"} \/ next_pdf_id <= MaxPdfs
    /\ \E one \in {ProcessFile([pdfs |-> pdfs, chunks |-> chunks,
                                 next_id |-> next_pdf_id], f)} :
          /\ pdfs' = one.pdfs
          /\ chunks' = one.chunks
          /\ next_pdf_id' = one.next_id
          /\ IF upload.remaining = 1 \/ one.entry.status = "error"
             THEN /\ upload' = NoUpload
                  /\ response' = [op |-> "upload", status |-> 200,
                                   results |-> Append(upload.results, one.entry)]
             ELSE /\ upload' = [upload EXCEPT !.remaining = @ - 1,
                                              !.results = Append(@, one.entry)]
                  /\ response' = Idle
    /\ UNCHANGED clients
    /\ UNCHANGED <<parseVars, confVars, chunkerVars, lcVars, storeVars, requestVars>>

\* one iteration of the loop of upload_pdfs; after the last file the
\* handler returns the entries
UploadFile(f) ==
    /\ upload.active
    /\ upload.remaining > 0
    /\ f.stage \in {"save", "extract", "metadata"} \/ next_pdf_id <= MaxPdfs
    /\ \E one \in {ProcessFile([pdfs |-> pdfs, chunks |-> chunks,
                                 next_id |-> next_pdf_id], f)} :
          /\ pdfs' = one.pdfs
          /\ chunks' = one.chunks
          /\ next_pdf_id' = one.next_id
          /\ IF upload.remaining = 1
             THEN /\ upload' = NoUpload
                  /\ response' = [op |-> "upload", status |-> 200,
                                   results |-> Append(upload.results, one.entry)]
             ELSE /\ upload' = [upload EXCEPT !.remaining = @ - 1,
                                              !.results = Append(@, one.entry)]
                  /\ response' = Idle
    /\ UNCHANGED clients
    /\ UNCHANGED <<parseVars, confVars, chunkerVars, lcVars, storeVars, requestVars>>

\* a direct call of EmbeddingStore.search_similar_chunks
Search(sin, limit, min_similarity) ==
    /\ \E r \in {EmbeddingStoreSearch(pdfs, chunks, sin, limit, min_similarity)} :
          response' = [op |-> "search", query |-> sin, limit |-> limit,
                       min_similarity |-> min_similarity,
                       raised |-> r.raised, results |-> r.results]
    /\ UNCHANGED <<pdfs, chunks, next_pdf_id, clients, upload>>
    /\ UNCHANGED <<parseVars, confVars, chunkerVars, lcVars, storeVars, requestVars>>

\* POST /ask-question with an empty or missing question: the
\* HTTPException(400) is raised inside the try and re-raised as a 500
AskNoQuestion ==
    /\ response' = [op |-> "ask", status |-> 500, detail |-> "400: Question is required"]
    /\ UNCHANGED <<pdfs, chunks, next_pdf_id, clients, upload>>
    /\ UNCHANGED <<parseVars, confVars, chunkerVars, lcVars, storeVars, requestVars>>

\* POST /ask-question with a question
AskQuestion(ai_model, max_chunks, sin, api) ==
    /\ \E r \in {AnswerQuestion(get_ai_interface(ai_model),
                                  get_ai_interface(ai_model) \in clients,
                                  max_chunks, pdfs, chunks, sin, api)} :
          /\ clients' = IF r.has_client THEN clients \cup {get_ai_interface(ai_model)}
                        ELSE clients
          /\ response' =
                IF r.raised THEN [op |-> "ask", status |-> 500, detail |-> r.error]
                ELSE [op |-> "ask", status |-> 200,
                      apology      |-> r.apology,
                      error        |-> r.error,
                      answer       |-> r.answer,
                      confidence   |-> r.confidence,
                      sources      |-> r.sources,
                      chunks_found |-> r.chunks_found,
                      model_used   |-> ai_model,
                      interface    |-> get_ai_interface(ai_model),
                      invoked      |-> r.invoked,
                      sources_used |-> r.sources_used]
    /\ UNCHANGED <<pdfs, chunks, next_pdf_id, upload>>
    /\ UNCHANGED <<parseVars, confVars, chunkerVars, lcVars, storeVars, requestVars>>

\* a variant of clear-all that gives up the deletes when a file could not be
\* removed from the storage, and still reports success
ClearAllGivingUpOnStorage(fault) ==
    /\ fault = "storage" => pdfs # {}
    /\ chunks' = IF fault \in {"select", "delete_chunks", "storage"} THEN chunks ELSE <<>>
    /\ pdfs' = IF fault = "none" THEN {} ELSE pdfs
    /\ response' = [op |-> "clear",
                    status |-> IF fault \in {"none", "storage"} THEN 200 ELSE 500,
                    storage_failed |-> fault = "storage"]
    /\ UNCHANGED <<next_pdf_id, clients, upload>>
    /\ UNCHANGED <<parseVars, confVars, chunkerVars, lcVars, storeVars, requestVars>>

\* DELETE /clear-all: Database.clear_all_data removes the files from the
\* storage (a failure there is passed over), deletes the chunks, then the
\* pdfs; `fault` names the call that raises: "select", "delete_chunks" and
\* "delete_pdfs" are database calls, "storage" is the removal of a file
ClearAll(fault) ==
    /\ fault = "storage" => pdfs # {}
    /\ chunks' = IF fault = "select" \/ fault = "delete_chunks" THEN chunks ELSE <<>>
    /\ pdfs' = IF fault \in {"none", "storage"} THEN {} ELSE pdfs
    /\ response' = [op |-> "clear",
                    status |-> IF fault \in {"none", "storage"} THEN 200 ELSE 500,
                    storage_failed |-> fault = "storage"]
    /\ UNCHANGED <<next_pdf_id, clients, upload>>
    /\ UNCHANGED <<parseVars, confVars, chunkerVars, lcVars, storeVars, requestVars>>

Next ==
    \/ \E nfiles \in 1..MaxFilesPerRequest, nflags \in 0..MaxFilesPerRequest :
          UploadBegin(nfiles, nflags)
    \/ \E f \in FileInputs : UploadFile(f)
    \/ \E sin \in SearchInputs, limit \in {DefaultLimit} :
          Search(sin, limit, DefaultMinSimilarity)
    \/ AskNoQuestion
    \/ \E ai_model \in AiModels, max_chunks \in {DefaultMaxChunks},
          sin \in AskSearchInputs, api \in ApiOutcomes :
          AskQuestion(ai_model, max_chunks, sin, api)
    \/ \E fault \in {"none", "select", "delete_chunks", "delete_pdfs"} : ClearAll(fault)

Spec == Init /\ [][Next]_vars

\* ---- reply parsing --------------------------------------------------
MaxReplyLines == 2

MaxSectionLines == 1

\* the lines a free-form reply is made of: blank, plain text, headers with
\* and without inline content, an indented header, a bare number, a
\* lower-case header
ReplyLines ==
    {<<>>,
     <<"F", "o", "o">>,
     <<" ", "A", "N", "S", "W", "E", "R", ":", " ", "F", "o", "o">>,
     <<"A", "N", "S", "W", "E", "R", ":">>,
     <<"C", "O", "N", "F", "I", "D", "E", "N", "C", "E", ":", " ", "8", "0">>,
     <<"C", "O", "N", "F", "I", "D", "E", "N", "C", "E", ":", " ", "h", "i", "g", "h">>,
     <<"8", "0">>,
     <<"R", "E", "A", "S", "O", "N", "I", "N", "G", ":", " ", "B", "a", "r">>,
     <<"a", "n", "s", "w", "e", "r", ":", " ", "F", "o", "o">>}

ContentLines == {<<"F", "o", "o">>, <<"B", "a", "r">>}

ConfidenceValues == {7, 80, 100}

\* str(n) for n >= 0
RECURSIVE DigitsOf(_)
DigitsOf(n) ==
    LET d == <<"0", "1", "2", "3", "4", "5", "6", "7", "8", "9">>[(n % 10) + 1]
    IN  IF n < 10 THEN <<d>> ELSE DigitsOf(n \div 10) \o <<d>>

\* a reply of `lines`, newline-joined
FreeReply(lines) == Join(lines, <<NL>>)

\* a three-section reply: style "inline" puts the first content line of a
\* section after its header, style "alone" leaves every header alone on
\* its line with the content on the following lines
Section(style, header, content) ==
    IF style = "inline"
    THEN <<header \o <<SP>> \o Head(content)>> \o Tail(content)
    ELSE <<header>> \o content

SectionedReply(l) ==
    Join(Section(l.style, HdrAnswer, l.answer)
         \o Section(l.style, HdrConfidence, <<DigitsOf(l.confidence)>>)
         \o Section(l.style, HdrReasoning, l.reasoning), <<NL>>)

SectionLines == UNION {[1..n -> ContentLines] : n \in 1..MaxSectionLines}

Layouts ==
    {[style |-> "free", lines |-> ls] :
        ls \in UNION {[1..n -> ReplyLines] : n \in 0..MaxReplyLines}}
    \cup
    {[style |-> st, answer |-> a, confidence |-> c, reasoning |-> r] :
        st \in {"inline", "alone"}, a \in SectionLines,
        c \in ConfidenceValues, r \in SectionLines}

ReplyOf(l) == IF l.style = "free" THEN FreeReply(l.lines) ELSE SectionedReply(l)

ParserNames == {"claude", "openai", "gemini", "openrouter"}

ParseWith(name, response_text) ==
    CASE name = "claude"     -> Claude_parse_response(response_text)
      [] name = "openai"     -> OpenAI_parse_response(response_text)
      [] name = "gemini"     -> Gemini_parse_response(response_text)
      [] name = "openrouter" -> OpenRouter_parse_response(response_text)

ParseInit ==
    /\ ServiceInit
    /\ \E l \in Layouts : layout = l /\ reply = ReplyOf(l)
    /\ parsed = <<>>
    /\ conf_text = <<>> /\ conf_score = <<>>
    /\ text = <<>> /\ chunk_size = 1 /\ chunk_overlap = 0
    /\ start = 0 /\ windows = <<>> /\ out_chunks = <<>> /\ split_pc = "done"

\* the provider `name` parses the reply
Parse(name) ==
    /\ name \notin DOMAIN parsed
    /\ parsed' = (name :> ParseWith(name, reply)) @@ parsed
    /\ UNCHANGED <<reply, layout>>
    /\ UNCHANGED <<serviceVars, confVars, chunkerVars, lcVars, storeVars, requestVars>>

ClaudeParse == Parse("claude")

OpenAIParse == Parse("openai")

GeminiParse == Parse("gemini")

OpenRouterParse == Parse("openrouter")

ParseNext == ClaudeParse \/ OpenAIParse \/ GeminiParse \/ OpenRouterParse

SpecParse == ParseInit /\ [][ParseNext]_vars

\* ---- confidence extraction -------------------------------------------
MaxConfParts == 2

\* the pieces a confidence text is made of: every keyword of the three
\* families, numbers, and the texts of the documented examples
ConfFragments ==
    HighWords \cup MediumWords \cup LowWords \cup
    {<<"7", "3">>,
     <<"1", "5", "0">>,
     <<"-", "5">>,
     <<" ">>,
     <<"n", "o", " ", "i", "n", "f", "o">>,
     <<"I", "'", "m", " ", "a", "b", "o", "u", "t", " ", "7", "3", "%", " ", "s", "u", "r", "e">>,
     <<"V", "e", "r", "y", " ", "C", "o", "n", "f", "i", "d", "e", "n", "t">>}

RECURSIVE Concat(_)
Concat(parts) == IF parts = <<>> THEN <<>> ELSE Head(parts) \o Concat(Tail(parts))

ConfTexts == {Concat(ps) : ps \in UNION {[1..n -> ConfFragments] : n \in 0..MaxConfParts}}

ExtractorNames == {"claude", "openai", "gemini"}

ConfidenceInit ==
    /\ ServiceInit
    /\ conf_text \in ConfTexts
    /\ conf_score = <<>>
    /\ reply = <<>> /\ layout = <<>> /\ parsed = <<>>
    /\ text = <<>> /\ chunk_size = 1 /\ chunk_overlap = 0
    /\ start = 0 /\ windows = <<>> /\ out_chunks = <<>> /\ split_pc = "done"

\* the interface `name` extracts the score from the confidence text
ExtractScore(name) ==
    /\ name \notin DOMAIN conf_score
    /\ conf_score' = (name :> ExtractWith(name, conf_text)) @@ conf_score
    /\ UNCHANGED conf_text
    /\ UNCHANGED <<serviceVars, parseVars, chunkerVars, lcVars, storeVars, requestVars>>

ClaudeExtract == ExtractScore("claude")

OpenAIExtract == ExtractScore("openai")

GeminiExtract == ExtractScore("gemini")

ConfidenceNext == ClaudeExtract \/ OpenAIExtract \/ GeminiExtract

SpecConfidence == ConfidenceInit /\ [][ConfidenceNext]_vars

\* ---- chunking ----------------------------------------------------------
MaxTextLen == 5

MaxChunkSize == 4

MaxOverlap == 3

TextAlphabet == {"a", ".", SP}

Texts == UNION {[1..n -> TextAlphabet] : n \in 0..MaxTextLen}

ChunkInit ==
    /\ ServiceInit
    /\ reply = <<>> /\ layout = <<>> /\ parsed = <<>>
    /\ conf_text = <<>> /\ conf_score = <<>>
    /\ text \in Texts
    /\ chunk_size \in 1..MaxChunkSize
    /\ chunk_overlap \in 0..MaxOverlap
    /\ start = 0
    /\ windows = <<>>
    /\ out_chunks = <<>>
    /\ split_pc = "entry"

\* _split_text_into_chunks is entered: an empty text returns [] at once
SplitEnter ==
    /\ split_pc = "entry"
    /\ split_pc' = IF text = <<>> THEN "done" ELSE "loop"
    /\ UNCHANGED <<text, chunk_size, chunk_overlap, start, windows, out_chunks>>
    /\ UNCHANGED <<serviceVars, parseVars, confVars, lcVars, storeVars, requestVars>>

\* one iteration of `while start < len(text)`
SplitIterate ==
    /\ split_pc = "loop"
    /\ start < Len(text)
    /\ LET end_  == ChunkEnd(text, start, chunk_size)
           chunk == ExtractChunk(text, start, end_)
           next  == NextStart(start, end_, chunk_overlap)
       IN  /\ windows' = Append(windows, [start |-> start, end |-> end_])
           /\ out_chunks' = KeepChunk(out_chunks, chunk)
           /\ start' = next
           /\ split_pc' = IF next >= Len(text) THEN "done" ELSE "loop"
    /\ UNCHANGED <<text, chunk_size, chunk_overlap>>
    /\ UNCHANGED <<serviceVars, parseVars, confVars, lcVars, storeVars, requestVars>>

ChunkNext == SplitEnter \/ SplitIterate

SpecChunk == ChunkInit /\ [][ChunkNext]_vars

\* ---- similarity search over a stored corpus ---------------------------
MaxCorpusChunks == 2

\* embeddings of the corpus and of the queries: two axes, a diagonal, an
\* opposite direction and the zero vector
SearchEmbSet == {<<1, 0>>, <<0, 1>>, <<1, 1>>, <<-1, 0>>, <<0, 0>>}

\* a document that was ingested without fault
PlainFile(embeddings) ==
    [embeddings |-> embeddings, is_confidential |-> FALSE, stage |-> "none",
     batch_fail |-> {}, item_fail |-> {}, store_fail |-> {}]

\* a document of exactly ScanLimit chunks, all about the same topic
BulkFile == PlainFile([i \in 1..ScanLimit |-> <<0, 1>>])

\* the uploads that built the corpus: the bulk document or not, then one
\* document of up to MaxCorpusChunks chunks
Corpora ==
    {bulk \o <<PlainFile(e)>> :
        bulk \in {<<>>, <<BulkFile>>},
        e \in UNION {[1..n -> SearchEmbSet] : n \in 0..MaxCorpusChunks}}

\* min_similarity values: -0.5, 0.0, 0.1 and 0.8
SearchMinSimilarities == MinSimilarities \cup {Threshold(-1, 2)}

SearchQueries ==
    {[fault |-> "none", query_embedding |-> q] : q \in SearchEmbSet}
    \cup {[fault |-> f, query_embedding |-> <<1, 0>>] : f \in {"embed", "db"}}

SearchInit ==
    /\ \E corpus \in Corpora :
          LET st == ProcessFiles([pdfs |-> {}, chunks |-> <<>>, next_id |-> 1,
                                  results |-> <<>>], corpus)
          IN  /\ pdfs = st.pdfs
              /\ chunks = st.chunks
              /\ next_pdf_id = st.next_id
    /\ clients = {}
    /\ upload = NoUpload
    /\ response = Idle
    /\ OtherIdle
    /\ RequestIdle
    /\ LcIdle
    /\ StoreIdle

\* one search of the corpus.  The store does not change here, so a second
\* search of a behaviour is the first search of another one.
SearchNext ==
    /\ response = Idle
    /\ \E sin \in SearchQueries, limit \in 0..MaxLimit,
          min_similarity \in SearchMinSimilarities :
          Search(sin, limit, min_similarity)

SpecSearch == SearchInit /\ [][SearchNext]_vars

\* ------------------------------------------------------------------------
\* The full-document engine (langchain_query_engine.py), specification
\* SpecLangchain: one answer_question call on a freshly constructed engine.
\* ------------------------------------------------------------------------
MaxDocs == 2

\* the ai_model strings the engine recognises
LcKnownModels == {"claude", "openai", "gemini", "openrouter"}

\* ai_model of a request: the recognised strings, an unknown one, the empty one
LcAiModels == LcKnownModels \cup {"llama", ""}

\* the chat model _get_langchain_model builds for a recognised string
ChatModelOf(ai_model) ==
    CASE ai_model = "claude"     -> "claude-3-5-sonnet-latest"
      [] ai_model = "openai"     -> "gpt-4o-mini"
      [] ai_model = "gemini"     -> "gemini-2.5-flash"
      [] ai_model = "openrouter" -> "deepseek/deepseek-chat-v3.1:free"

\* what building a chat model meets: "ok"; "fallback": the constructor
\* raises and the Claude model built in the except block stands in;
\* "fails": that one raises too
InitOutcomes == {"ok", "fallback", "fails"}

\* LangchainQueryEngine._get_langchain_model on the cache `models`: the
\* model returned or the exception, and the cache afterwards
GetLangchainModel(models, ai_model, init) ==
    IF ai_model \in DOMAIN models
    THEN [raised |-> FALSE, models |-> models, model |-> models[ai_model]]
    ELSE IF ai_model \notin LcKnownModels
    THEN \* no branch of the try assigns; the final lookup raises KeyError
         [raised |-> TRUE, models |-> models, model |-> ""]
    ELSE IF init = "ok"
    THEN [raised |-> FALSE, models |-> (ai_model :> ChatModelOf(ai_model)) @@ models,
          model |-> ChatModelOf(ai_model)]
    ELSE IF init = "fallback"
    THEN [raised |-> FALSE, models |-> (ai_model :> ChatModelOf("claude")) @@ models,
          model |-> ChatModelOf("claude")]
    ELSE [raised |-> TRUE, models |-> models, model |-> ""]

\* the interface object whose _parse_response and generate_answer the
\* engine uses for ai_model
LcInterfaceOf(ai_model) ==
    IF ai_model = "claude" THEN "claude_interface"
    ELSE IF ai_model = "openai" THEN "openai_interface"
    ELSE IF ai_model = "gemini" THEN "gemini_interface"
    ELSE "claude_interface"

\* the dictionary _send_to_ai_model returns for the parsed reply p
AnalysisOf(p) ==
    [answer |-> p.answer, confidence |-> p.confidence, reasoning |-> p.reasoning,
     sources_used |-> 1]

\* _send_to_ai_model once _get_langchain_model ended as g: `api` is what
\* llm_model.invoke does
SendWith(g, ai_model, api) ==
    IF g.raised
    THEN [raised |-> TRUE, models |-> g.models, invoked |-> FALSE, response |-> <<>>]
    ELSE IF api.fails
    THEN [raised |-> TRUE, models |-> g.models, invoked |-> TRUE, response |-> <<>>]
    ELSE [raised |-> FALSE, models |-> g.models, invoked |-> TRUE,
          response |-> AnalysisOf(InterfaceParse(LcInterfaceOf(ai_model), api.text))]

\* LangchainQueryEngine._send_to_ai_model
SendToAiModel(models, ai_model, init, api) ==
    SendWith(GetLangchainModel(models, ai_model, init), ai_model, api)

\* entries of the log of downloads and provider calls
LogEntry(call, pdf_id, raised) == [call |-> call, pdf_id |-> pdf_id, raised |-> raised]

\* the loop state after _send_to_ai_model ended as r for pdf_info
AfterSend(st, pdf_info, r) ==
    [models          |-> r.models,
     pdf_responses   |-> IF r.raised THEN st.pdf_responses
                         ELSE Append(st.pdf_responses,
                                     [filename |-> pdf_info.filename,
                                      response |-> r.response,
                                      pdf_id   |-> pdf_info.id]),
     processed_count |-> IF r.raised THEN st.processed_count ELSE st.processed_count + 1,
     log             |-> st.log \o <<LogEntry("download", pdf_info.id, FALSE)>>
                         \o (IF r.invoked THEN <<LogEntry("invoke", pdf_info.id, r.raised)>>
                             ELSE <<>>)]

\* a variant of the loop body that counts a document whose analysis failed
ProcessPdfCountingFailures(st, pdf_info, ai_model, o) ==
    [AfterSend(st, pdf_info, SendToAiModel(st.models, ai_model, o.init, o.api))
        EXCEPT !.processed_count = st.processed_count + 1]

\* one iteration of the loop of answer_question over pdf_files, on the loop
\* state st = [models, pdf_responses, processed_count, log]; o is what the
\* download, the model construction and the provider call meet
ProcessPdf(st, pdf_info, ai_model, o) ==
    IF ~o.download_ok
    THEN [st EXCEPT !.log = Append(@, LogEntry("download", pdf_info.id, TRUE))]
    ELSE AfterSend(st, pdf_info, SendToAiModel(st.models, ai_model, o.init, o.api))

\* `response['response'].get('answer', str(response['response']))`
AnswerOf(pdf_response) == pdf_response.response.answer

LabelOpen ==
    <<"=", "=", "=", SP>>

LabelClose ==
    <<SP, "=", "=", "=", NL>>

\* the per-document answers under `=== filename ===`, joined by blank lines
ResponsesText(responses) ==
    Join([i \in DOMAIN responses |->
             LabelOpen \o responses[i].filename \o LabelClose \o AnswerOf(responses[i])],
         <<NL, NL>>)

FromOpen ==
    <<"*", "*", "F", "r", "o", "m", SP>>

FromClose ==
    <<":", "*", "*", NL>>

\* a variant of the fallback text that leaves the filenames out
CombinedAnswerUnlabeled(responses) ==
    Join([i \in DOMAIN responses |-> AnswerOf(responses[i])], <<NL, NL>>)

\* the fallback text of _consolidate_responses: the per-document answers
\* under `**From filename:**`, joined by blank lines
CombinedAnswer(responses) ==
    Join([i \in DOMAIN responses |->
             FromOpen \o responses[i].filename \o FromClose \o AnswerOf(responses[i])],
         <<NL, NL>>)

IndividualHeader ==
    <<NL, NL, "-", "-", "-", NL, NL, "*", "*", "I", "n", "d", "i", "v", "i",
      "d", "u", "a", "l", SP, "P", "D", "F", SP, "R", "e", "s", "p", "o",
      "n", "s", "e", "s", ":", "*", "*", NL, NL>>

ConsolidatedCap == 85

FallbackConfidence == 70

\* a variant of the consolidation that passes the provider's confidence on
ConsolidatedFromUncapped(r, responses) ==
    IF r.raised
    THEN [answer     |-> CombinedAnswer(responses),
          confidence |-> FallbackConfidence,
          reasoning  |-> [text |-> "Combined responses (consolidation failed)",
                          documents |-> Len(responses)]]
    ELSE [answer     |-> r.answer \o IndividualHeader \o ResponsesText(responses),
          confidence |-> r.confidence,
          reasoning  |-> [text |-> "Consolidated analysis",
                          documents |-> Len(responses)]]

\* _consolidate_responses once ai_interface.generate_answer ended as r
ConsolidatedFrom(r, responses) ==
    IF r.raised
    THEN [answer     |-> CombinedAnswer(responses),
          confidence |-> FallbackConfidence,
          reasoning  |-> [text |-> "Combined responses (consolidation failed)",
                          documents |-> Len(responses)]]
    ELSE [answer     |-> r.answer \o IndividualHeader \o ResponsesText(responses),
          confidence |-> Min2(ConsolidatedCap, r.confidence),
          reasoning  |-> [text |-> "Consolidated analysis",
                          documents |-> Len(responses)]]

\* LangchainQueryEngine._consolidate_responses: the interface's client does
\* not exist yet on a fresh engine
ConsolidateResponses(responses, ai_model, api) ==
    ConsolidatedFrom(GenerateAnswer(LcInterfaceOf(ai_model), FALSE, <<>>, api), responses)

PreviewLength == 150

PreviewOpen ==
    <<"F", "u", "l", "l", SP, "P", "D", "F", SP, "a", "n", "a", "l", "y",
      "s", "i", "s", ":", SP>>

\* LangchainQueryEngine._build_source_info
LcBuildSourceInfo(responses) ==
    [i \in DOMAIN responses |->
        [filename        |-> responses[i].filename,
         chunk_index     |-> 0,
         relevance_score |-> 100,
         preview         |-> PreviewOpen \o Slice(AnswerOf(responses[i]), 0, PreviewLength)
                             \o <<".", ".", ".">>]]

\* the early returns of answer_question
ZeroResult(answer, reasoning) ==
    [answer |-> answer, confidence |-> 0,
     reasoning |-> [text |-> reasoning, documents |-> 0],
     sources |-> <<>>, chunks_found |-> 0,
     processing_method |-> "langchain", pdfs_processed |-> 0]

NoFilesAnswer ==
    <<"N", "o", SP, "P", "D", "F", SP, "f", "i", "l", "e", "s", SP, "f", "o",
      "u", "n", "d", SP, "i", "n", SP, "t", "h", "e", SP, "d", "a", "t", "a",
      "b", "a", "s", "e", SP, "f", "o", "r", SP, "a", "n", "a", "l", "y",
      "s", "i", "s", ".">>

AllFailedAnswer ==
    <<"F", "a", "i", "l", "e", "d", SP, "t", "o", SP, "p", "r", "o", "c",
      "e", "s", "s", SP, "a", "n", "y", SP, "P", "D", "F", SP, "f", "i", "l",
      "e", "s", ".", SP, "P", "l", "e", "a", "s", "e", SP, "c", "h", "e",
      "c", "k", SP, "t", "h", "e", SP, "f", "i", "l", "e", "s", SP, "a", "n",
      "d", SP, "t", "r", "y", SP, "a", "g", "a", "i", "n", ".">>

ApologyOpen ==
    <<"I", SP, "a", "p", "o", "l", "o", "g", "i", "z", "e", ",", SP, "b",
      "u", "t", SP, "I", SP, "e", "n", "c", "o", "u", "n", "t", "e", "r",
      "e", "d", SP, "a", "n", SP, "e", "r", "r", "o", "r", SP, "p", "r", "o",
      "c", "e", "s", "s", "i", "n", "g", SP, "y", "o", "u", "r", SP, "q",
      "u", "e", "s", "t", "i", "o", "n", SP, "w", "i", "t", "h", SP, "L",
      "a", "n", "g", "C", "h", "a", "i", "n", ":", SP>>

NoFilesResult == ZeroResult(NoFilesAnswer, "No documents available")

AllFailedResult == ZeroResult(AllFailedAnswer, "All PDF processing failed")

\* the except block of answer_question
LcErrorResult(error) ==
    ZeroResult(ApologyOpen \o error, "LangChain processing error occurred")

\* the dictionary answer_question returns after step 3
FinalResult(c, responses, count) ==
    [answer |-> c.answer, confidence |-> c.confidence, reasoning |-> c.reasoning,
     sources |-> LcBuildSourceInfo(responses), chunks_found |-> count,
     processing_method |-> "langchain", pdfs_processed |-> count]

\* a variant of the test after the loop that always goes on to step 3
LoopExitAlwaysConsolidate(responses) == "consolidate"

\* `if not pdf_responses: return {...}` after the loop, else step 3
LoopExit(responses) == IF responses = <<>> THEN "done" ELSE "consolidate"

\* the name of the stored document i
DocName(i) == <<"d", Digits[i + 1]>>

\* the rows of n stored documents, in storage order
StoredDocs(n) == [i \in 1..n |-> [id |-> i, filename |-> DocName(i)]]

ListingError ==
    <<"d", "b", SP, "d", "o", "w", "n">>

\* Database.get_pdf_files_for_query: the stored documents, or an exception
DbGetPdfFilesForQuery ==
    {[raised |-> TRUE, error |-> ListingError, files |-> <<>>]}
    \cup {[raised |-> FALSE, error |-> <<>>, files |-> StoredDocs(n)] : n \in 0..MaxDocs}

\* what llm_model.invoke and the consolidating API call do
LcApiOutcomes ==
    {[fails |-> TRUE, text |-> <<>>]} \cup {[fails |-> FALSE, text |-> r] : r \in LcReplies}

\* what one document meets: a failing download, or a download followed by
\* the construction of the model and the provider call
LcPdfOutcomes ==
    {[download_ok |-> FALSE, init |-> "ok", api |-> [fails |-> TRUE, text |-> <<>>]]}
    \cup {[download_ok |-> TRUE, init |-> i, api |-> a] :
             i \in InitOutcomes, a \in LcApiOutcomes}

\* answer_question(question, ai_model) is entered on a fresh engine
LcInit ==
    /\ pdfs = {} /\ chunks = <<>> /\ next_pdf_id = 1 /\ clients = {}
    /\ upload = NoUpload /\ response = Idle
    /\ OtherIdle
    /\ RequestIdle
    /\ StoreIdle
    /\ lc_pc = "list"
    /\ lc_ai_model \in LcAiModels
    /\ pdf_files = <<>>
    /\ pdf_index = 0
    /\ pdf_responses = <<>>
    /\ processed_count = 0
    /\ langchain_models = <<>>
    /\ lc_log = <<>>
    /\ consolidated = <<>>
    /\ lc_result = <<>>

\* step 1 of answer_question: the listing, its failure (the outer except)
\* and the return for an empty store
LcListPdfs(l) ==
    /\ lc_pc = "list"
    /\ pdf_files' = l.files
    /\ lc_pc' = IF l.raised \/ l.files = <<>> THEN "done" ELSE "loop"
    /\ lc_result' = IF l.raised THEN LcErrorResult(l.error)
                    ELSE IF l.files = <<>> THEN NoFilesResult
                    ELSE <<>>
    /\ UNCHANGED <<lc_ai_model, pdf_index, pdf_responses, processed_count,
                   langchain_models, lc_log, consolidated>>
    /\ UNCHANGED <<serviceVars, parseVars, confVars, chunkerVars, storeVars, requestVars>>

\* step 2 of answer_question: one iteration of the loop over pdf_files;
\* after the last one, the return when no document gave a response
LcProcessPdf(o) ==
    /\ lc_pc = "loop"
    /\ pdf_index < Len(pdf_files)
    /\ \E st \in {ProcessPdf([models |-> langchain_models,
                              pdf_responses |-> pdf_responses,
                              processed_count |-> processed_count,
                              log |-> lc_log],
                             pdf_files[pdf_index + 1], lc_ai_model, o)} :
          /\ langchain_models' = st.models
          /\ pdf_responses' = st.pdf_responses
          /\ processed_count' = st.processed_count
          /\ lc_log' = st.log
          /\ IF pdf_index + 1 < Len(pdf_files)
             THEN /\ lc_pc' = "loop"
                  /\ lc_result' = <<>>
             ELSE /\ lc_pc' = LoopExit(st.pdf_responses)
                  /\ lc_result' = IF st.pdf_responses = <<>> THEN AllFailedResult ELSE <<>>
    /\ pdf_index' = pdf_index + 1
    /\ UNCHANGED <<lc_ai_model, pdf_files, consolidated>>
    /\ UNCHANGED <<serviceVars, parseVars, confVars, chunkerVars, storeVars, requestVars>>

\* step 3 of answer_question: the consolidation and the return
LcConsolidate(api) ==
    /\ lc_pc = "consolidate"
    /\ \E c \in {ConsolidateResponses(pdf_responses, lc_ai_model, api)} :
          /\ consolidated' = c
          /\ lc_result' = FinalResult(c, pdf_responses, processed_count)
    /\ lc_log' = Append(lc_log,
                        LogEntry("consolidate", 0,
                                 GenerateAnswer(LcInterfaceOf(lc_ai_model), FALSE,
                                                <<>>, api).raised))
    /\ lc_pc' = "done"
    /\ UNCHANGED <<lc_ai_model, pdf_files, pdf_index, pdf_responses, processed_count,
                   langchain_models>>
    /\ UNCHANGED <<serviceVars, parseVars, confVars, chunkerVars, storeVars, requestVars>>

LcNext ==
    \/ \E l \in DbGetPdfFilesForQuery : LcListPdfs(l)
    \/ \E o \in LcPdfOutcomes : LcProcessPdf(o)
    \/ \E api \in LcApiOutcomes : LcConsolidate(api)

SpecLangchain == LcInit /\ [][LcNext]_vars

\* ------------------------------------------------------------------------
\* store_chunks step by step (embedding_store.py), specification SpecStore:
\* one call store_chunks(1, chunks) on an empty chunks table.
\* ------------------------------------------------------------------------
MaxStoreChunks == 17

MaxItemFailures == 2

\* the subsets of S with at most k elements
RECURSIVE SmallSubsets(_, _)
SmallSubsets(S, k) ==
    IF k = 0 THEN {{}}
    ELSE SmallSubsets(S, k - 1) \cup {T \cup {a} : T \in SmallSubsets(S, k - 1), a \in S}

\* the number of batches of n chunks
NumBatches(n) == (n + BatchSize - 1) \div BatchSize

\* the embedding the model computes for the text of chunk i: one per chunk
TextEmbedding(i) == <<i, 1>>

\* the calls: n chunks, the batch calls that raise, the single retries that
\* raise (among the chunks of those batches), and a failing insert of the
\* first chunk (tried when every chunk has an embedding)
StoreCall(n, bf, itf, sf) ==
    [embeddings |-> [i \in 1..n |-> TextEmbedding(i)],
     batch_fail |-> bf, item_fail |-> itf, store_fail |-> sf]

StoreCallsOf(n, bf) ==
    {StoreCall(n, bf, itf, {}) :
        itf \in SmallSubsets({i \in 1..n : BatchOf(i) \in bf}, MaxItemFailures)}
    \cup {StoreCall(n, bf, {}, {1})}

StoreInputs ==
    {StoreCall(0, {}, {}, {})}
    \cup UNION {StoreCallsOf(g[1], g[2]) :
                  g \in {h \in (1..MaxStoreChunks) \X SUBSET (1..NumBatches(MaxStoreChunks)) :
                            h[2] \subseteq 1..NumBatches(h[1])}}

StoreInit ==
    /\ \E f \in StoreInputs :
          /\ st_input = f
          /\ pdfs = {[id |-> 1, is_confidential |-> FALSE, chunk_count |-> Len(f.embeddings)]}
          /\ st_pc = IF Len(f.embeddings) = 0 THEN "insert" ELSE "embed"
    /\ chunks = <<>>
    /\ next_pdf_id = 2
    /\ clients = {}
    /\ upload = NoUpload
    /\ response = Idle
    /\ OtherIdle
    /\ RequestIdle
    /\ LcIdle
    /\ st_i = 0
    /\ all_embeddings = <<>>
    /\ retried = {}
    /\ st_raised = FALSE

\* one iteration of the batch loop of store_chunks
StoreEmbedBatch ==
    /\ st_pc = "embed"
    /\ st_i < Len(st_input.embeddings)
    /\ all_embeddings' = EmbedBatch(all_embeddings, st_input.embeddings, st_i,
                                    st_input.batch_fail, st_input.item_fail)
    /\ retried' = retried \cup RetriedInBatch(Len(st_input.embeddings), st_i,
                                              st_input.batch_fail)
    /\ st_i' = st_i + BatchSize
    /\ st_pc' = IF st_i + BatchSize < Len(st_input.embeddings) THEN "embed" ELSE "insert"
    /\ UNCHANGED <<st_input, st_raised>>
    /\ UNCHANGED <<serviceVars, parseVars, confVars, chunkerVars, lcVars, requestVars>>

\* the rest of store_chunks: the failure-rate test, the inserts, the return
StoreInsert ==
    /\ st_pc = "insert"
    /\ \E r \in {InsertChunks(1, Len(st_input.embeddings), all_embeddings,
                              st_input.store_fail)} :
          /\ chunks' = chunks \o r.rows
          /\ st_raised' = r.raised
    /\ st_pc' = "done"
    /\ UNCHANGED <<st_input, st_i, all_embeddings, retried>>
    /\ UNCHANGED <<pdfs, next_pdf_id, clients, upload, response>>
    /\ UNCHANGED <<parseVars, confVars, chunkerVars, lcVars, requestVars>>

StoreNext == StoreEmbedBatch \/ StoreInsert

SpecStore == StoreInit /\ [][StoreNext]_vars

\* ------------------------------------------------------------------------
\* One upload request of several files (main.py upload_pdfs), specification
\* SpecUpload: POST /upload-pdfs with k files and k flags on an empty store.
\* ------------------------------------------------------------------------
MaxUploadFiles == 2

\* the requests: every sequence of one to MaxUploadFiles files
UploadRequests == UNION {[1..k -> FileInputs] : k \in 1..MaxUploadFiles}

\* the file the loop of upload_pdfs is at
CurrentFile == up_files[Len(up_files) - upload.remaining + 1]

\* the request has passed the length check of line 103 and enters the loop
UploadInit ==
    /\ up_files \in UploadRequests
    /\ ask_in = <<>>
    /\ engines = <<>>
    /\ reqs = <<>>
    /\ loop = "none"
    /\ upload = [active |-> TRUE, remaining |-> Len(up_files), results |-> <<>>]
    /\ pdfs = {}
    /\ chunks = <<>>
    /\ next_pdf_id = 1
    /\ clients = {}
    /\ response = Idle
    /\ OtherIdle
    /\ LcIdle
    /\ StoreIdle

\* the loop of upload_pdfs takes the next file of the request
UploadNextFile ==
    /\ upload.active
    /\ UploadFile(CurrentFile)

UploadNext == UploadNextFile

SpecUpload == UploadInit /\ [][UploadNext]_vars

\* ------------------------------------------------------------------------
\* One question (main.py ask_question, query_engine.py), specification
\* SpecAsk: POST /ask-question on a store that holds one ingested document.
\* ------------------------------------------------------------------------
\* the documents of the store: one document of no chunk, or of one chunk
\* that the question matches or does not match
AskCorpora == {<<PlainFile(e)>> : e \in {<<>>, <<<<1, 0>>>>, <<<<-1, 0>>>>}}

\* the requests: aiModel, maxChunks, what the search meets and what the
\* provider's API does
AskRequests ==
    {[ai_model |-> a, max_chunks |-> n, sin |-> x, api |-> o] :
        a \in AiModels, n \in {0, 1, DefaultMaxChunks},
        x \in {y \in SearchInputs : y.query_embedding = <<1, 0>>}, o \in ApiOutcomes}

AskInit ==
    /\ \E corpus \in AskCorpora :
          \E st \in {ProcessFiles([pdfs |-> {}, chunks |-> <<>>, next_id |-> 1,
                                   results |-> <<>>], corpus)} :
              /\ pdfs = st.pdfs
              /\ chunks = st.chunks
              /\ next_pdf_id = st.next_id
    /\ ask_in \in AskRequests
    /\ up_files = <<>>
    /\ engines = <<>>
    /\ reqs = <<>>
    /\ loop = "none"
    /\ clients \in {{}, {"claude_interface"}}
    /\ upload = NoUpload
    /\ response = Idle
    /\ OtherIdle
    /\ LcIdle
    /\ StoreIdle

\* the handler runs on the request
AskStored ==
    /\ response = Idle
    /\ AskQuestion(ask_in.ai_model, ask_in.max_chunks, ask_in.sin, ask_in.api)

AskNext == AskStored

SpecAsk == AskInit /\ [][AskNext]_vars

\* ------------------------------------------------------------------------
\* One window of the chunker (pdf_processor.py), specification SpecBoundary:
\* the end of the chunk that begins at `start`, for texts with two kinds of
\* sentence ending.
\* ------------------------------------------------------------------------
MaxBoundaryLen == 6

MaxBoundarySize == 5

MaxBoundaryStart == 1

BoundaryAlphabet == {"a", ".", "!", SP}

BoundaryTexts == UNION {[1..n -> BoundaryAlphabet] : n \in 1..MaxBoundaryLen}

\* the loop of _split_text_into_chunks is at the top of an iteration
BoundaryInit ==
    /\ ServiceInit
    /\ reply = <<>> /\ layout = <<>> /\ parsed = <<>>
    /\ conf_text = <<>> /\ conf_score = <<>>
    /\ text \in BoundaryTexts
    /\ chunk_size \in 1..MaxBoundarySize
    /\ chunk_overlap = 0
    /\ start \in 0..MaxBoundaryStart
    /\ start < Len(text)
    /\ windows = <<>>
    /\ out_chunks = <<>>
    /\ split_pc = "loop"

\* the iteration cuts its window and the chunk of it
CutWindow ==
    /\ split_pc = "loop"
    /\ windows = <<>>
    /\ \E end_ \in {ChunkEnd(text, start, chunk_size)} :
          /\ windows' = <<[start |-> start, end |-> end_]>>
          /\ out_chunks' = KeepChunk(out_chunks, ExtractChunk(text, start, end_))
    /\ split_pc' = "done"
    /\ UNCHANGED <<text, chunk_size, chunk_overlap, start>>
    /\ UNCHANGED <<serviceVars, parseVars, confVars, lcVars, storeVars, requestVars>>

BoundaryNext == CutWindow

SpecBoundary == BoundaryInit /\ [][BoundaryNext]_vars

\* ------------------------------------------------------------------------
\* The writers and readers of the store (main.py upload_pdfs, search_chunks,
\* ask_question, clear_all_data), specification SpecData: the handlers of
\* the service with one provider, and clear-all with the removal of a
\* stored file failing as well.
\* ------------------------------------------------------------------------
ClearFaults == {"none", "storage", "select", "delete_chunks", "delete_pdfs"}

DataNext ==
    \/ \E nfiles \in 1..MaxFilesPerRequest, nflags \in 0..MaxFilesPerRequest :
          UploadBegin(nfiles, nflags)
    \/ \E f \in FileInputs : UploadFile(f)
    \/ \E sin \in SearchInputs : Search(sin, DefaultLimit, DefaultMinSimilarity)
    \/ \E sin \in AskSearchInputs :
          AskQuestion("claude", DefaultMaxChunks, sin, [fails |-> FALSE, text |-> ReplyWellFormed])
    \/ \E fault \in ClearFaults : ClearAll(fault)

SpecData == Init /\ [][DataNext]_vars

\* ------------------------------------------------------------------------
\* Concurrent questions (main.py ask_question, query_engine.py),
\* specification SpecConcurrentAsk: MaxRequests POST /ask-question requests
\* run on one event loop and interleave at their awaits: the search and the
\* provider call.  The store holds one document of two chunks.
\* ------------------------------------------------------------------------
MaxRequests == 2

\* QueryEngine.__init__: max_context_chunks of a new engine
EngineDefaultMaxChunks == 10

Slots == 1..MaxRequests

\* QueryEngine(embedding_store, ai_interface) as constructed
NewQueryEngine(ai_interface) ==
    [ai_interface |-> ai_interface, max_context_chunks |-> EngineDefaultMaxChunks]

\* the module-level query_engine of main.py
ModuleQueryEngine == NewQueryEngine("claude_interface")

NoEngine == [ai_interface |-> "", max_context_chunks |-> 0]

\* a variant in which a request configures the module-level engine
TempQueryEngineIsModuleEngine(r) == 0

\* the object that the local temp_query_engine of request r names: a new
\* QueryEngine of its own
TempQueryEngine(r) == r

\* aiModel and maxChunks of the concurrent requests
ConcurrentAiModels == {"claude", "openai-gpt4"}

ConcurrentMaxChunks == {1, 2}

NoRequest ==
    [pc |-> "idle", ai_model |-> "", max_chunks |-> 0, sin |-> <<>>, api |-> <<>>,
     relevant |-> <<>>, interface |-> "", out |-> <<>>]

ConcurrentAskInit ==
    /\ \E st \in {ProcessFiles([pdfs |-> {}, chunks |-> <<>>, next_id |-> 1,
                                results |-> <<>>],
                               <<PlainFile(<<<<1, 0>>, <<1, 1>>>>)>>)} :
          /\ pdfs = st.pdfs
          /\ chunks = st.chunks
          /\ next_pdf_id = st.next_id
    /\ clients = {}
    /\ upload = NoUpload
    /\ response = Idle
    /\ OtherIdle
    /\ LcIdle
    /\ StoreIdle
    /\ up_files = <<>>
    /\ ask_in = <<>>
    /\ engines = [e \in 0..MaxRequests |-> IF e = 0 THEN ModuleQueryEngine ELSE NoEngine]
    /\ reqs = [r \in Slots |-> NoRequest]
    /\ loop = "none"

\* ask_question up to its first await (main.py 175-197): the settings are
\* read and temp_query_engine is created and configured
CAskBegin(r, ai_model, max_chunks) ==
    /\ reqs[r].pc = "idle"
    /\ engines' = [engines EXCEPT
                      ![TempQueryEngine(r)] =
                          [NewQueryEngine(get_ai_interface(ai_model))
                              EXCEPT !.max_context_chunks = max_chunks]]
    /\ reqs' = [reqs EXCEPT ![r] = [@ EXCEPT !.pc = "retrieve",
                                               !.ai_model = ai_model,
                                               !.max_chunks = max_chunks]]
    /\ UNCHANGED <<up_files, ask_in, loop>>
    /\ UNCHANGED <<serviceVars, parseVars, confVars, chunkerVars, lcVars, storeVars>>

\* step 1 of answer_question: the search, with the limit of the engine
CAskRetrieve(r, sin) ==
    /\ reqs[r].pc = "retrieve"
    /\ reqs' = [reqs EXCEPT ![r] =
                  [@ EXCEPT !.pc = "generate",
                            !.sin = sin,
                            !.relevant =
                                RetrieveRelevantChunks(
                                    pdfs, chunks, sin,
                                    engines[TempQueryEngine(r)].max_context_chunks)]]
    /\ UNCHANGED <<up_files, ask_in, engines, loop>>
    /\ UNCHANGED <<serviceVars, parseVars, confVars, chunkerVars, lcVars, storeVars>>

\* steps 2 and 3 of answer_question and the return of ask_question: the
\* provider of the engine is called on the retrieved chunks
CAskGenerate(r, api) ==
    /\ reqs[r].pc = "generate"
    /\ \E i \in {engines[TempQueryEngine(r)].ai_interface} :
          \E out \in {CatchAll(AnswerFrom(i, i \in clients, reqs[r].relevant, api))} :
              /\ clients' = IF out.has_client THEN clients \cup {i} ELSE clients
              /\ reqs' = [reqs EXCEPT ![r] = [@ EXCEPT !.pc = "done",
                                                       !.api = api,
                                                       !.interface = i,
                                                       !.out = out]]
    /\ UNCHANGED <<pdfs, chunks, next_pdf_id, upload, response>>
    /\ UNCHANGED <<up_files, ask_in, engines, loop>>
    /\ UNCHANGED <<parseVars, confVars, chunkerVars, lcVars, storeVars>>

ConcurrentAskNext ==
    \E r \in Slots :
        \/ \E ai_model \in ConcurrentAiModels, max_chunks \in ConcurrentMaxChunks :
              CAskBegin(r, ai_model, max_chunks)
        \/ \E sin \in {x \in SearchInputs : x.query_embedding = <<1, 0>> /\ x.fault = "none"} :
              CAskRetrieve(r, sin)
        \/ \E api \in ApiOutcomes : CAskGenerate(r, api)

SpecConcurrentAsk == ConcurrentAskInit /\ [][ConcurrentAskNext]_vars

\* ------------------------------------------------------------------------
\* A concurrent upload and clear-all (main.py upload_pdfs, clear_all_data;
\* embedding_store.py store_chunks; database.py), specification
\* SpecConcurrentWrite.  Both handlers are coroutines of one event loop: a
\* request that has the loop keeps it until it reaches an await that
\* suspends.  The awaits of the two handlers are
\*   "file"   UploadFile.read / seek, which may hand the loop over;
\*   "db"     the Database methods, whose body is a blocking client call;
\*   "encode" the embedding methods, whose body is a blocking model call.
\* The pdfs row of a file, the chunks rows and the two deletes of clear-all
\* are separate steps, each one call to the database.
\* ------------------------------------------------------------------------
MaxWriteFiles == 2

MaxWriteChunks == 2

\* a variant in which every await hands the loop over
EveryAwaitSuspends(point) == TRUE

\* whether the coroutine awaited at `point` suspends its caller
Suspends(point) == point = "file"

\* the holder of the loop once request r has reached the await `point`
AfterAwait(r, point) == IF Suspends(point) THEN "none" ELSE r

HasLoop(r) == loop \in {"none", r}

\* the files of the upload: flag and number of chunks
WriteFiles == [is_confidential : BOOLEAN, n : 1..MaxWriteChunks]

WriteRequests == UNION {[1..k -> WriteFiles] : k \in 1..MaxWriteFiles}

ConcurrentWriteInit ==
    /\ \E st \in {ProcessFiles([pdfs |-> {}, chunks |-> <<>>, next_id |-> 1,
                                results |-> <<>>],
                               <<PlainFile(<<<<1, 0>>>>)>>)} :
          /\ pdfs = st.pdfs
          /\ chunks = st.chunks
          /\ next_pdf_id = st.next_id
    /\ clients = {}
    /\ upload = NoUpload
    /\ response = Idle
    /\ OtherIdle
    /\ LcIdle
    /\ StoreIdle
    /\ up_files = <<>>
    /\ ask_in = <<>>
    /\ engines = <<>>
    /\ \E files \in WriteRequests :
          reqs = [upload |-> [pc |-> "save", files |-> files, i |-> 1, pdf_id |-> 0,
                              k |-> 0, stored |-> 0, results |-> <<>>],
                  clear  |-> [pc |-> "start", status |-> 0]]
    /\ loop = "none"

WriteFile == reqs.upload.files[reqs.upload.i]

WriteStoreUnchanged ==
    /\ UNCHANGED <<pdfs, chunks, next_pdf_id, clients, upload, response>>
    /\ UNCHANGED <<up_files, ask_in, engines>>
    /\ UNCHANGED <<parseVars, confVars, chunkerVars, lcVars, storeVars>>

\* db.save_file, from its `await file.read()` to the call of process_pdf,
\* which stops at its own `await file.read()`
USave ==
    /\ HasLoop("upload")
    /\ reqs.upload.pc = "save"
    /\ reqs' = [reqs EXCEPT !.upload.pc = "extract"]
    /\ loop' = AfterAwait("upload", "file")
    /\ WriteStoreUnchanged

\* process_pdf, to the call of db.store_pdf_metadata
UExtract ==
    /\ HasLoop("upload")
    /\ reqs.upload.pc = "extract"
    /\ reqs' = [reqs EXCEPT !.upload.pc = "metadata"]
    /\ loop' = AfterAwait("upload", "db")
    /\ WriteStoreUnchanged

\* db.store_pdf_metadata: the pdfs row; then the test of main.py:140 and,
\* for a document that is embedded, the call of store_chunks up to the
\* batch encode
UMetadata ==
    /\ HasLoop("upload")
    /\ reqs.upload.pc = "metadata"
    /\ pdfs' = pdfs \cup {[id |-> next_pdf_id,
                           is_confidential |-> WriteFile.is_confidential,
                           chunk_count |-> WriteFile.n]}
    /\ next_pdf_id' = next_pdf_id + 1
    /\ reqs' = [reqs EXCEPT !.upload.pdf_id = next_pdf_id,
                            !.upload.k = 1,
                            !.upload.stored = 0,
                            !.upload.pc = IF ~WriteFile.is_confidential /\ ~SkipEmbeddings
                                          THEN "embed" ELSE "entry"]
    /\ loop' = IF ~WriteFile.is_confidential /\ ~SkipEmbeddings
               THEN AfterAwait("upload", "encode") ELSE "upload"
    /\ UNCHANGED <<chunks, clients, upload, response>>
    /\ UNCHANGED <<up_files, ask_in, engines>>
    /\ UNCHANGED <<parseVars, confVars, chunkerVars, lcVars, storeVars>>

\* the embedding phase of store_chunks, to the first insert
UEmbed ==
    /\ HasLoop("upload")
    /\ reqs.upload.pc = "embed"
    /\ reqs' = [reqs EXCEPT !.upload.pc = "chunk"]
    /\ loop' = AfterAwait("upload", "db")
    /\ WriteStoreUnchanged

\* db.store_chunk_embedding for chunk k of the file: the insert, or its
\* failure, which store_chunks counts and passes over
UChunk(fails) ==
    /\ HasLoop("upload")
    /\ reqs.upload.pc = "chunk"
    /\ chunks' = IF fails THEN chunks
                 ELSE Append(chunks, [pdf_id      |-> reqs.upload.pdf_id,
                                      chunk_index |-> reqs.upload.k - 1,
                                      embedding   |-> <<1, 0>>])
    /\ reqs' = [reqs EXCEPT !.upload.k = @ + 1,
                            !.upload.stored = IF fails THEN @ ELSE @ + 1,
                            !.upload.pc = IF reqs.upload.k = WriteFile.n
                                          THEN "entry" ELSE "chunk"]
    /\ loop' = IF reqs.upload.k = WriteFile.n THEN "upload"
               ELSE AfterAwait("upload", "db")
    /\ UNCHANGED <<pdfs, next_pdf_id, clients, upload, response>>
    /\ UNCHANGED <<up_files, ask_in, engines>>
    /\ UNCHANGED <<parseVars, confVars, chunkerVars, lcVars, storeVars>>

\* the result entry of the file (error when store_chunks stored no chunk),
\* then the next file up to `await file.read()` of save_file, or the return
UEntry ==
    /\ HasLoop("upload")
    /\ reqs.upload.pc = "entry"
    /\ reqs' = [reqs EXCEPT
                  !.upload.results =
                      Append(@, IF ~WriteFile.is_confidential /\ ~SkipEmbeddings
                                   /\ reqs.upload.stored = 0
                                THEN [status |-> "error", pdf_id |-> 0]
                                ELSE [status |-> "success", pdf_id |-> reqs.upload.pdf_id]),
                  !.upload.i = IF @ < Len(reqs.upload.files) THEN @ + 1 ELSE @,
                  !.upload.pc = IF reqs.upload.i < Len(reqs.upload.files)
                                THEN "save" ELSE "done"]
    /\ loop' = IF reqs.upload.i < Len(reqs.upload.files)
               THEN AfterAwait("upload", "file") ELSE "none"
    /\ WriteStoreUnchanged

\* clear_all_data to the delete of the chunks: embedding_store.clear_all
\* does nothing, the file paths are selected and the files removed (a
\* failing removal is passed over); a failing select raises
CSelect(fails) ==
    /\ HasLoop("clear")
    /\ reqs.clear.pc = "start"
    /\ reqs' = [reqs EXCEPT !.clear.pc = IF fails THEN "done" ELSE "delete_chunks",
                            !.clear.status = IF fails THEN 500 ELSE 0]
    /\ loop' = IF fails THEN "none" ELSE "clear"
    /\ WriteStoreUnchanged

\* the delete of every chunks row
CDeleteChunks(fails) ==
    /\ HasLoop("clear")
    /\ reqs.clear.pc = "delete_chunks"
    /\ chunks' = IF fails THEN chunks ELSE <<>>
    /\ reqs' = [reqs EXCEPT !.clear.pc = IF fails THEN "done" ELSE "delete_pdfs",
                            !.clear.status = IF fails THEN 500 ELSE 0]
    /\ loop' = IF fails THEN "none" ELSE "clear"
    /\ UNCHANGED <<pdfs, next_pdf_id, clients, upload, response>>
    /\ UNCHANGED <<up_files, ask_in, engines>>
    /\ UNCHANGED <<parseVars, confVars, chunkerVars, lcVars, storeVars>>

\* the delete of every pdfs row, and the return
CDeletePdfs(fails) ==
    /\ HasLoop("clear")
    /\ reqs.clear.pc = "delete_pdfs"
    /\ pdfs' = IF fails THEN pdfs ELSE {}
    /\ reqs' = [reqs EXCEPT !.clear.pc = "done",
                            !.clear.status = IF fails THEN 500 ELSE 200]
    /\ loop' = "none"
    /\ UNCHANGED <<chunks, next_pdf_id, clients, upload, response>>
    /\ UNCHANGED <<up_files, ask_in, engines>>
    /\ UNCHANGED <<parseVars, confVars, chunkerVars, lcVars, storeVars>>

ConcurrentWriteNext ==
    \/ USave
    \/ UExtract
    \/ UMetadata
    \/ UEmbed
    \/ \E fails \in BOOLEAN : UChunk(fails)
    \/ UEntry
    \/ \E fails \in BOOLEAN : CSelect(fails)
    \/ \E fails \in BOOLEAN : CDeleteChunks(fails)
    \/ \E fails \in BOOLEAN : CDeletePdfs(fails)

SpecConcurrentWrite == ConcurrentWriteInit /\ [][ConcurrentWriteNext]_vars

\* ------------------------------------------------------------------------
\* Properties of the service (specification Spec)
\* ------------------------------------------------------------------------
ConfidentialIds == {p.id : p \in {q \in pdfs : q.is_confidential}}

\* C1: the chunk store never holds a chunk of a document flagged
\* confidential, and neither a similarity search nor the sources of an
\* answer ever carry a chunk of such a document.
C1_ConfidentialNeverEmbedded ==
    /\ \A i \in DOMAIN chunks : chunks[i].pdf_id \notin ConfidentialIds
    /\ response.op = "search" =>
          \A i \in DOMAIN response.results :
              /\ ~response.results[i].is_confidential
              /\ response.results[i].pdf_id \notin ConfidentialIds
    /\ (response.op = "ask" /\ response.status = 200) =>
          \A i \in DOMAIN response.sources :
              /\ ~response.sources[i].is_confidential
              /\ response.sources[i].pdf_id \notin ConfidentialIds

\* C1 witness: a confidential document with text has been ingested, and a
\* search over the store has returned some chunk.
C1_Witness ==
    /\ \E p \in pdfs : p.is_confidential /\ p.chunk_count > 0
    /\ response.op = "search"
    /\ Len(response.results) > 0

C2_WitnessInit ==
    /\ response.op = "ask"
    /\ response.status = 200
    /\ response.apology
    /\ response.error = "API key must be set in environment variables"

\* the interface object the request's aiModel stands for
ExpectedInterface(model_used) ==
    CASE model_used = "openai-gpt4"  -> "openai_gpt4_interface"
      [] model_used = "openai-gpt35" -> "openai_gpt35_interface"
      [] model_used = "gemini-pro"   -> "gemini_interface"
      [] OTHER                       -> "claude_interface"

\* C17: get_ai_interface resolves every aiModel string: a recognised value
\* selects its own interface, every other string (the empty one included)
\* selects the Claude interface, and the request is answered, not failed.
C17_EveryModelStringResolves ==
    response.op = "ask" =>
        /\ response.status = 500 => response.detail = "400: Question is required"
        /\ response.status = 200 =>
              /\ response.interface = ExpectedInterface(response.model_used)
              /\ response.interface \in clients \/ response.apology

\* C17 witness: the empty string was answered by the Claude interface,
\* whose client now exists.
C17_Witness ==
    /\ response.op = "ask"
    /\ response.status = 200
    /\ response.model_used = ""
    /\ response.interface = "claude_interface"
    /\ "claude_interface" \in clients
    /\ ~response.apology

\* C17 witness: a recognised string selected its own interface.
C17_WitnessRecognised ==
    /\ response.op = "ask"
    /\ response.status = 200
    /\ response.model_used = "gemini-pro"
    /\ response.interface = "gemini_interface"

\* ------------------------------------------------------------------------
\* Properties of the writers and readers of the store (specification
\* SpecData)
\* ------------------------------------------------------------------------
\* the sequence s is the beginning of the sequence t
IsPrefixOf(s, t) == Len(s) <= Len(t) /\ SubSeq(t, 1, Len(s)) = s

C26_ClearAllEmptiesStore ==
    /\ []((response.op = "clear" /\ response.status = 200) =>
              (pdfs = {} /\ chunks = <<>>))
    /\ []((response.op = "search" /\ pdfs = {} /\ chunks = <<>>) =>
              response.results = <<>>)
    /\ [][(pdfs = {} /\ chunks = <<>> /\ upload' = upload) =>
              (pdfs' = {} /\ chunks' = <<>>)]_vars

\* C26 witness: documents and chunks were stored, the clear-all could not
\* remove a file from the storage, returned success, and the store is empty.
C26_Witness ==
    /\ response.op = "clear"
    /\ response.status = 200
    /\ response.storage_failed
    /\ next_pdf_id > 1
    /\ pdfs = {}
    /\ chunks = <<>>

\* ------------------------------------------------------------------------
\* Properties of similarity search (specification SpecSearch)
\* ------------------------------------------------------------------------
\* the score of the stored chunk row c for the query of the last search
ScoreOf(c) == CosineSimilarity(response.query.query_embedding, c.embedding)

\* the last request was a search that read the store and returned
SearchReturned ==
    response.op = "search" /\ ~response.raised /\ response.query.fault = "none"

\* C3: a search returns at most `limit` entries, each with a score at or
\* above min_similarity.
C3_AtMostLimitAboveThreshold ==
    (response.op = "search" /\ ~response.raised) =>
        /\ Len(response.results) <= response.limit
        /\ \A i \in DOMAIN response.results :
              SimGE(response.results[i].similarity, response.min_similarity)

\* C3 witness: a search was cut to its limit although more stored chunks
\* qualified, and some stored chunk scored below the threshold.
C3_Witness ==
    /\ SearchReturned
    /\ response.limit > 0
    /\ Len(response.results) = response.limit
    /\ Cardinality({j \in DOMAIN chunks :
                       SimGE(ScoreOf(chunks[j]), response.min_similarity)}) > response.limit
    /\ \E j \in DOMAIN chunks : ~SimGE(ScoreOf(chunks[j]), response.min_similarity)

\* C4: a search returns the `limit` best chunks of the whole store: every
\* result is a stored chunk with its score, in descending order, and a
\* stored chunk at or above min_similarity is left out only when the result
\* is full and every result scores at least as high.
C4_TopAmongAllStored ==
    SearchReturned =>
        /\ \A i \in DOMAIN response.results :
              \E j \in DOMAIN chunks :
                  /\ chunks[j].pdf_id = response.results[i].pdf_id
                  /\ chunks[j].chunk_index = response.results[i].chunk_index
                  /\ ScoreOf(chunks[j]) = response.results[i].similarity
        /\ \A i \in 1..(Len(response.results) - 1) :
              SimGE(response.results[i].similarity, response.results[i + 1].similarity)
        /\ \A j \in DOMAIN chunks :
              (/\ SimGE(ScoreOf(chunks[j]), response.min_similarity)
               /\ ~\E i \in DOMAIN response.results :
                      /\ chunks[j].pdf_id = response.results[i].pdf_id
                      /\ chunks[j].chunk_index = response.results[i].chunk_index)
              => /\ Len(response.results) = response.limit
                 /\ \A i \in DOMAIN response.results :
                       SimGE(response.results[i].similarity, ScoreOf(chunks[j]))

\* ------------------------------------------------------------------------
\* Properties of reply parsing (specification SpecParse)
\* ------------------------------------------------------------------------
\* C5: for a reply whose three headers each stand alone on their line with
\* the content on the following lines, the Claude parser returns the answer
\* lines, the integer written after CONFIDENCE: and the reasoning lines.
C5_HeadersAloneParsed ==
    (layout.style = "alone" /\ "claude" \in DOMAIN parsed) =>
        /\ parsed["claude"].answer = Join(layout.answer, <<NL>>)
        /\ parsed["claude"].confidence = layout.confidence
        /\ parsed["claude"].reasoning = Join(layout.reasoning, <<SP>>)

\* no line of the text, once trimmed, begins with one of the three headers
NoHeaderLine(t) ==
    \A i \in DOMAIN Split(t, NL) :
        \A h \in {HdrAnswer, HdrConfidence, HdrReasoning} :
            ~StartsWith(Strip(Split(t, NL)[i]), h)

\* C8: for a non-empty reply without any header line the Claude, OpenAI and
\* Gemini parsers return the raw reply as the answer with confidence 50, and
\* for no non-empty reply do they return an empty answer.
C8_NoHeaderFallsBack ==
    \A n \in DOMAIN parsed \cap {"claude", "openai", "gemini"} :
        reply # <<>> =>
            /\ parsed[n].answer # <<>>
            /\ NoHeaderLine(reply) =>
                  /\ parsed[n].answer = reply
                  /\ parsed[n].confidence = 50

\* C8 witness: the three parsers have parsed a two-line reply without
\* headers whose text is not blank.
C8_Witness ==
    /\ {"claude", "openai", "gemini"} \subseteq DOMAIN parsed
    /\ layout.style = "free"
    /\ Len(layout.lines) = 2
    /\ NoHeaderLine(reply)
    /\ Strip(reply) # <<>>

\* C9: on every reply the OpenRouter parser returns the same answer,
\* confidence and reasoning as the Claude, OpenAI and Gemini parsers.
C9_OpenRouterParsesAlike ==
    "openrouter" \in DOMAIN parsed =>
        \A n \in DOMAIN parsed : parsed[n] = parsed["openrouter"]

\* ------------------------------------------------------------------------
\* Properties of confidence extraction (specification SpecConfidence)
\* ------------------------------------------------------------------------
HasDigit(t) == \E i \in DOMAIN t : IsDigit(t[i])

\* the keyword families the lower-cased text contains a keyword of
FamiliesIn(t) ==
    {f \in {"high", "medium", "low"} :
        ContainsAny(Lower(t), CASE f = "high"   -> HighWords
                                [] f = "medium" -> MediumWords
                                [] f = "low"    -> LowWords)}

FamilyValue(f) == CASE f = "high" -> 85 [] f = "medium" -> 65 [] f = "low" -> 35

\* C6: for a text without digits the score is 85, 65 or 35 when the text
\* contains a keyword of the high, medium or low family (and of no other
\* family), 50 when it contains no keyword, and each keyword alone as the
\* text gives the value of its own family.
C6_KeywordFamilies ==
    \A n \in DOMAIN conf_score :
        ~HasDigit(conf_text) =>
            /\ \A f \in {"high", "medium", "low"} :
                  FamiliesIn(conf_text) = {f} => conf_score[n] = FamilyValue(f)
            /\ FamiliesIn(conf_text) = {} => conf_score[n] = 50
            /\ conf_text \in HighWords => conf_score[n] = 85
            /\ conf_text \in MediumWords => conf_score[n] = 65
            /\ conf_text \in LowWords => conf_score[n] = 35

\* the value of the first maximal run of digits of a text that has a digit
FirstRunValue(t) ==
    LET i == CHOOSE k \in DOMAIN t :
                 IsDigit(t[k]) /\ \A m \in 1..(k - 1) : ~IsDigit(t[m])
        j == CHOOSE k \in i..Len(t) :
                 /\ \A m \in i..k : IsDigit(t[m])
                 /\ (k = Len(t) \/ ~IsDigit(t[k + 1]))
        val[k \in (i - 1)..j] ==
            IF k = i - 1 THEN 0 ELSE 10 * val[k - 1] + DigitVal(t[k])
    IN  val[j]

\* C7: for a text with a digit the Claude and OpenAI extraction returns
\* the value of the first maximal run of digits, clamped to 0..100,
\* whatever keywords the text contains.
C7_FirstDigitRunClamped ==
    \A n \in DOMAIN conf_score \cap {"claude", "openai"} :
        HasDigit(conf_text) =>
            conf_score[n] = Max2(0, Min2(100, FirstRunValue(conf_text)))

\* C7 witness: both interfaces have scored a text with a keyword and a
\* number above 100, and a text with a keyword and the number 73 exists too.
C7_Witness ==
    /\ {"claude", "openai"} \subseteq DOMAIN conf_score
    /\ HasDigit(conf_text)
    /\ FamiliesIn(conf_text) # {}
    /\ FirstRunValue(conf_text) > 100
    /\ conf_score["claude"] = 100

\* ------------------------------------------------------------------------
\* Properties of chunking (specification SpecChunk)
\* ------------------------------------------------------------------------
\* C10: for chunk_size >= 1 and chunk_overlap >= 0 the loop of
\* _split_text_into_chunks ends: start grows on every iteration, so after k
\* iterations start >= k, an iteration begins only with start < len(text),
\* and there are never more than len(text) iterations.
C10_LoopBounded ==
    /\ Len(windows) <= Len(text)
    /\ Len(windows) <= start
    /\ \A i \in DOMAIN windows : windows[i].start < Len(text)
    /\ \A i \in 1..(Len(windows) - 1) : windows[i].start < windows[i + 1].start
    /\ windows # <<>> => windows[Len(windows)].start < start
    /\ split_pc = "loop" => start < Len(text)
    /\ (split_pc = "done" /\ text # <<>>) => start >= Len(text)

\* C10 witness: with an overlap not smaller than the chunk size the loop
\* has ended after as many iterations as the text has characters.
C10_Witness ==
    /\ split_pc = "done"
    /\ chunk_overlap >= chunk_size
    /\ Len(text) >= 3
    /\ Len(windows) = Len(text)

\* the window w of the text holds a character that is not whitespace
WindowHasContent(w) ==
    \E i \in (w.start + 1)..Min2(w.end, Len(text)) : text[i] \notin Whitespace

\* C11: every chunk returned by _split_text_into_chunks is non-empty and
\* neither begins nor ends with whitespace; exactly the windows that hold a
\* non-whitespace character give a chunk; an empty text gives no chunk.
C11_ChunksTrimmedNonEmpty ==
    /\ \A k \in DOMAIN out_chunks :
          /\ out_chunks[k] # <<>>
          /\ Head(out_chunks[k]) \notin Whitespace
          /\ out_chunks[k][Len(out_chunks[k])] \notin Whitespace
    /\ Len(out_chunks) = Cardinality({i \in DOMAIN windows : WindowHasContent(windows[i])})
    /\ text = <<>> => out_chunks = <<>>

\* C11 witness: the call has returned, one window was whitespace only and
\* gave no chunk, and another began with whitespace and gave a chunk.
C11_Witness ==
    /\ split_pc = "done"
    /\ \E i \in DOMAIN windows : ~WindowHasContent(windows[i])
    /\ \E i \in DOMAIN windows :
          /\ WindowHasContent(windows[i])
          /\ text[windows[i].start + 1] \in Whitespace
    /\ out_chunks # <<>>

\* C11 witness: the empty text has returned the empty sequence.
C11_WitnessEmpty == split_pc = "done" /\ text = <<>> /\ out_chunks = <<>>

\* C12: every window [start, end) is at most chunk_size long, and two
\* consecutive windows share at most chunk_overlap characters (end of the
\* first minus start of the second).
C12_WindowAndOverlapBounded ==
    /\ \A i \in DOMAIN windows : windows[i].end - windows[i].start <= chunk_size
    /\ \A i \in 1..(Len(windows) - 1) :
          windows[i].end - windows[i + 1].start <= chunk_overlap

\* C12 witness: the call has returned after a window cut short at a
\* boundary, a window of the full size, and two consecutive windows that
\* share exactly chunk_overlap > 0 characters.
C12_Witness ==
    /\ split_pc = "done"
    /\ chunk_overlap > 0
    /\ \E i \in DOMAIN windows : windows[i].end - windows[i].start < chunk_size
    /\ \E i \in DOMAIN windows : windows[i].end - windows[i].start = chunk_size
    /\ \E i \in 1..(Len(windows) - 1) :
          windows[i].end - windows[i + 1].start = chunk_overlap

\* no sentence ending lies in t[lo:hi]
NoSentenceEnding(t, lo, hi) ==
    \A k \in DOMAIN SentenceEndings : RFind(t, SentenceEndings[k], lo, hi) = -1

\* the position of the last space of the last WordLookback characters of
\* the window that begins at start_ and has the hard end hard, or -1
LastSpaceOfWindow(t, start_, hard) == RFind(t, <<SP>>, Max2(start_, hard - WordLookback), hard)

\* C23: a window whose hard end start + chunk_size lies before the end of
\* the text, with no sentence ending in its last 200 characters and a space
\* after its start in its last 100 characters, ends right after the last
\* such space.
C23_WordBoundaryFallback ==
    \A i \in DOMAIN windows :
        (/\ windows[i].start + chunk_size < Len(text)
         /\ NoSentenceEnding(text,
                             Max2(windows[i].start,
                                  windows[i].start + chunk_size - SentenceLookback),
                             windows[i].start + chunk_size)
         /\ LastSpaceOfWindow(text, windows[i].start, windows[i].start + chunk_size)
                > windows[i].start)
        => windows[i].end =
              LastSpaceOfWindow(text, windows[i].start, windows[i].start + chunk_size) + 1

\* the chunk cut from the window w
ChunkOfWindow(w) == Strip(Slice(text, w.start, w.end))

\* C30: the windows leave no gap: the first begins at 0, each later one
\* begins no later than the previous one ended, and once the call has
\* returned the last one reaches the end of the text and every character
\* that is not whitespace lies in a window whose chunk was returned.
C30_WindowsLeaveNoGap ==
    /\ windows # <<>> => windows[1].start = 0
    /\ \A i \in 1..(Len(windows) - 1) : windows[i + 1].start <= windows[i].end
    /\ (split_pc = "done" /\ text # <<>>) =>
          /\ windows # <<>>
          /\ windows[Len(windows)].end >= Len(text)
          /\ \A q \in DOMAIN text :
                text[q] \notin Whitespace =>
                    \E i \in DOMAIN windows :
                        /\ windows[i].start < q
                        /\ q <= windows[i].end
                        /\ \E k \in DOMAIN out_chunks : out_chunks[k] = ChunkOfWindow(windows[i])

\* C30 witness: without overlap the call has returned two windows that meet
\* end to start, the first cut at a sentence ending, and both gave a chunk.
C30_Witness ==
    /\ split_pc = "done"
    /\ chunk_overlap = 0
    /\ Len(windows) = 2
    /\ Len(out_chunks) = 2
    /\ windows[1].end - windows[1].start < chunk_size
    /\ windows[2].start = windows[1].end

\* ------------------------------------------------------------------------
\* Properties of the full-document engine (specification SpecLangchain)
\* ------------------------------------------------------------------------
Logged(call, pdf_id, raised) ==
    \E k \in DOMAIN lc_log : lc_log[k] = LogEntry(call, pdf_id, raised)

\* _consolidate_responses was called, and whether its provider call raised
ConsolidationCalled == \E b \in BOOLEAN : Logged("consolidate", 0, b)

\* the documents passed so far whose download and provider call succeeded
SucceededDocs == {i \in 1..pdf_index : Logged("invoke", i, FALSE)}

\* C13: the confidence of a result answer_question returns after
\* consolidation is at most 85, whatever the consolidating provider reports.
C13_ConsolidatedConfidenceCapped ==
    (lc_pc = "done" /\ ConsolidationCalled) => lc_result.confidence <= 85

\* C13 witness: the consolidating provider reported 99 (the only reply above
\* 85) and the returned confidence is 85.
C13_Witness ==
    /\ lc_pc = "done"
    /\ Logged("consolidate", 0, FALSE)
    /\ StartsWith(consolidated.answer, <<"U", "p">>)
    /\ lc_result.confidence = 85

\* the per-document answer i under its filename, as the fallback writes it
LabelledAnswer(i) ==
    <<"F", "r", "o", "m", SP>> \o pdf_responses[i].filename \o <<":", "*", "*", NL>>
    \o pdf_responses[i].response.answer

\* C14: when the consolidating provider call raises, _consolidate_responses
\* returns (nothing propagates) the per-document answers, each under its
\* filename, in document order, with confidence exactly 70.
C14_ConsolidationFallback ==
    Logged("consolidate", 0, TRUE) =>
        /\ lc_pc = "done"
        /\ consolidated.confidence = 70
        /\ lc_result.confidence = 70
        /\ lc_result.answer = consolidated.answer
        /\ \A i \in DOMAIN pdf_responses : Contains(consolidated.answer, LabelledAnswer(i))
        /\ \A i, j \in DOMAIN pdf_responses :
              i < j => \E a, b \in 0..Len(consolidated.answer) :
                          /\ a < b
                          /\ OccursAt(consolidated.answer, LabelledAnswer(i), a)
                          /\ OccursAt(consolidated.answer, LabelledAnswer(j), b)
        /\ \A i, j \in DOMAIN pdf_responses : i < j => pdf_responses[i].pdf_id < pdf_responses[j].pdf_id

\* C14 witness: the consolidating call raised after two documents had given
\* different answers.
C14_Witness ==
    /\ lc_pc = "done"
    /\ Logged("consolidate", 0, TRUE)
    /\ Len(pdf_responses) = 2
    /\ pdf_responses[1].response.answer # pdf_responses[2].response.answer

\* C15: every listed document is attempted whatever happened to the ones
\* before it, and processed_count, the responses kept, pdfs_processed and
\* the number of sources all equal the number of documents whose download
\* and provider call succeeded.
C15_FailuresSkipOnlyThemselves ==
    /\ \A i \in 1..pdf_index : \E b \in BOOLEAN : Logged("download", i, b)
    /\ lc_pc \in {"consolidate", "done"} => pdf_index = Len(pdf_files)
    /\ processed_count = Cardinality(SucceededDocs)
    /\ Len(pdf_responses) = Cardinality(SucceededDocs)
    /\ lc_pc = "done" =>
          /\ lc_result.pdfs_processed = Cardinality(SucceededDocs)
          /\ Len(lc_result.sources) = Cardinality(SucceededDocs)

\* C15 witness: the first document failed, the second succeeded, and the
\* result counts one document.
C15_Witness ==
    /\ lc_pc = "done"
    /\ Len(pdf_files) >= 2
    /\ 1 \notin SucceededDocs
    /\ 2 \in SucceededDocs
    /\ lc_result.pdfs_processed = 1
    /\ Len(lc_result.sources) = 1

\* C16: when no document is stored or no document succeeds, the result has
\* confidence 0, pdfs_processed 0 and no sources, and _consolidate_responses
\* is never called.
C16_NothingProcessedNoConsolidation ==
    (pdf_index = Len(pdf_files) /\ SucceededDocs = {} /\ lc_pc # "list") =>
        /\ lc_pc = "done"
        /\ lc_result.confidence = 0
        /\ lc_result.pdfs_processed = 0
        /\ lc_result.sources = <<>>
        /\ ~ConsolidationCalled

\* C16 witness: two documents were listed, the download of one and the
\* provider call of the other failed.
C16_Witness ==
    /\ lc_pc = "done"
    /\ Len(pdf_files) >= 2
    /\ SucceededDocs = {}
    /\ \E i \in DOMAIN pdf_files : Logged("download", i, TRUE)
    /\ \E i \in DOMAIN pdf_files : Logged("invoke", i, TRUE)

\* C16 witness: the store listed no document.
C16_WitnessEmpty ==
    /\ lc_pc = "done"
    /\ pdf_files = <<>>
    /\ lc_result.answer = NoFilesAnswer

\* C18: with an unrecognised ai_model the engine falls back to the default
\* provider: every document it downloaded is sent to a model.
C18_UnknownModelFallsBack ==
    lc_ai_model \notin LcKnownModels =>
        \A i \in 1..pdf_index :
            Logged("download", i, FALSE) => \E b \in BOOLEAN : Logged("invoke", i, b)

\* ------------------------------------------------------------------------
\* Properties of store_chunks (specification SpecStore)
\* ------------------------------------------------------------------------
\* the chunks whose embedding permanently failed
FailedEmbeddings == {i \in DOMAIN all_embeddings : all_embeddings[i] = NoEmbedding}

\* C19: for n >= 1 chunks, when more than 10% of them have no embedding
\* store_chunks raises and the chunks table is untouched; when at most 10%
\* have none (exactly 10% included) and no insert fails, the call returns
\* and the table holds exactly the chunks that have an embedding.
C19_FailureRateThreshold ==
    (st_pc = "done" /\ Len(st_input.embeddings) >= 1) =>
        /\ Cardinality(FailedEmbeddings) * 10 > Len(st_input.embeddings) =>
              st_raised /\ chunks = <<>>
        /\ (/\ Cardinality(FailedEmbeddings) * 10 <= Len(st_input.embeddings)
            /\ st_input.store_fail = {}) =>
              /\ ~st_raised
              /\ Len(chunks) = Len(st_input.embeddings) - Cardinality(FailedEmbeddings)
              /\ \A i \in DOMAIN all_embeddings :
                    i \notin FailedEmbeddings =>
                        \E k \in DOMAIN chunks :
                            /\ chunks[k].chunk_index = i - 1
                            /\ chunks[k].embedding = all_embeddings[i]

\* C19 witness: ten chunks, one without embedding (exactly 10%): the call
\* returned and nine rows are stored.
C19_Witness ==
    /\ st_pc = "done"
    /\ Len(st_input.embeddings) = 10
    /\ Cardinality(FailedEmbeddings) = 1
    /\ st_input.store_fail = {}
    /\ ~st_raised
    /\ Len(chunks) = 9

\* C19 witness: nine chunks, one without embedding (more than 10%): the
\* call raised and nothing is stored.
C19_WitnessAbort ==
    /\ st_pc = "done"
    /\ Len(st_input.embeddings) = 9
    /\ Cardinality(FailedEmbeddings) = 1
    /\ st_raised
    /\ chunks = <<>>

\* C20: after the embedding phase all_embeddings has one entry per chunk,
\* entry i is the embedding of chunk i or None, it is None only when the
\* batch holding chunk i failed and the retry of chunk i failed too, and
\* only chunks of failed batches were embedded one by one.
C20_EmbeddingsAligned ==
    /\ Len(all_embeddings) = Min2(st_i, Len(st_input.embeddings))
    /\ st_pc \in {"insert", "done"} => Len(all_embeddings) = Len(st_input.embeddings)
    /\ \A i \in DOMAIN all_embeddings :
          /\ all_embeddings[i] = NoEmbedding \/ all_embeddings[i] = TextEmbedding(i)
          /\ all_embeddings[i] = NoEmbedding =>
                (BatchOf(i) \in st_input.batch_fail /\ i \in st_input.item_fail /\ i \in retried)
          /\ i \in retried => BatchOf(i) \in st_input.batch_fail
          /\ (i \in retried /\ i \notin st_input.item_fail) =>
                all_embeddings[i] = TextEmbedding(i)

\* C20 witness: seventeen chunks, the first batch failed, one of its chunks
\* failed again and another one was embedded on retry; the second batch
\* succeeded and was not retried.
C20_Witness ==
    /\ st_pc = "insert"
    /\ Len(st_input.embeddings) > BatchSize
    /\ st_input.batch_fail = {1}
    /\ \E i \in 1..BatchSize : all_embeddings[i] = NoEmbedding
    /\ \E i \in 1..BatchSize : i \in retried /\ all_embeddings[i] = TextEmbedding(i)
    /\ all_embeddings[BatchSize + 1] = TextEmbedding(BatchSize + 1)
    /\ (BatchSize + 1) \notin retried

\* ------------------------------------------------------------------------
\* Properties of one upload request (specification SpecUpload)
\* ------------------------------------------------------------------------
\* the entries the request has produced so far, or returned
UploadEntries ==
    IF upload.active THEN upload.results
    ELSE IF response.op = "upload" THEN response.results ELSE <<>>

\* whether the file f fails at some stage of its own ingestion
FileFails(f) ==
    \/ f.stage \in {"save", "extract", "metadata"}
    \/ ~f.is_confidential /\ StoreChunks(1, f).raised

\* C21: an upload of k files returns exactly k entries in input order, each
\* success or error; entry i is an error exactly when file i failed at some
\* stage, whatever happened to the files before it, and the document of a
\* successful entry i is in the store with the flag and chunk count of file i.
C21_OneEntryPerFileInOrder ==
    /\ Len(UploadEntries) = Len(up_files) - (IF upload.active THEN upload.remaining ELSE 0)
    /\ \A i \in DOMAIN UploadEntries :
          /\ UploadEntries[i].status \in {"success", "error"}
          /\ UploadEntries[i].status = "error" <=> FileFails(up_files[i])
          /\ UploadEntries[i].status = "success" =>
                \E d \in pdfs :
                    /\ d.id = UploadEntries[i].pdf_id
                    /\ d.is_confidential = up_files[i].is_confidential
                    /\ d.chunk_count = Len(up_files[i].embeddings)

\* C21 witness: a request of two files has returned; the first file failed
\* and the second one was ingested.
C21_Witness ==
    /\ ~upload.active
    /\ response.op = "upload"
    /\ Len(up_files) = 2
    /\ Len(response.results) = 2
    /\ response.results[1].status = "error"
    /\ response.results[2].status = "success"
    /\ up_files[1].stage = "extract"
    /\ chunks # <<>>

\* the document ids of the entries with status success
IngestedIds ==
    {UploadEntries[i].pdf_id : i \in {j \in DOMAIN UploadEntries :
                                         UploadEntries[j].status = "success"}}

\* C29: on a store that was empty before the request, the documents and the
\* chunks in the store are those of the files whose entry has status
\* success: a file whose entry has status error has left no document record
\* and no chunk.
C29_FailedFileLeavesNothing ==
    /\ {d.id : d \in pdfs} = IngestedIds
    /\ \A k \in DOMAIN chunks : chunks[k].pdf_id \in IngestedIds

\* ------------------------------------------------------------------------
\* Properties of one question (specification SpecAsk)
\* ------------------------------------------------------------------------
\* C22: when the similarity search of a question fails (the query embedding
\* raises, or the store read raises), the call is answered with status 200,
\* no sources and chunks_found 0; the only errors it can report are the
\* provider's own; a provider that can be initialised is invoked with an
\* empty context, and when its call succeeds the response carries the answer
\* and the confidence parsed from its reply and is not the apology.
C22_SearchFailureDegradesToEmptyContext ==
    (response.op = "ask" /\ ask_in.sin.fault # "none") =>
        /\ response.status = 200
        /\ response.sources = <<>>
        /\ response.chunks_found = 0
        /\ response.error \in {"", "API key must be set in environment variables",
                               "Failed to generate answer"}
        /\ KeyOf(response.interface) \in ApiKeys =>
              response.invoked /\ response.sources_used = 0
        /\ (response.invoked /\ ~ask_in.api.fails) =>
              /\ ~response.apology
              /\ response.answer = InterfaceParse(response.interface, ask_in.api.text).answer
              /\ response.confidence =
                    InterfaceParse(response.interface, ask_in.api.text).confidence

\* C22 witness: the store holds a chunk that matches the question, the query
\* embedding failed, and the response is the provider's answer with no
\* sources.
C22_Witness ==
    /\ response.op = "ask"
    /\ ask_in.sin.fault = "embed"
    /\ chunks # <<>>
    /\ chunks[1].embedding = <<1, 0>>
    /\ ~response.apology
    /\ response.invoked
    /\ response.answer # <<>>
    /\ response.confidence = 80
    /\ response.sources = <<>>

\* C22 witness, second case: the store read failed while the store held a
\* matching chunk
C22_WitnessStoreRead ==
    /\ response.op = "ask"
    /\ ask_in.sin.fault = "db"
    /\ chunks # <<>>
    /\ chunks[1].embedding = <<1, 0>>
    /\ ~response.apology
    /\ response.chunks_found = 0

\* ------------------------------------------------------------------------
\* Properties of one window (specification SpecBoundary)
\* ------------------------------------------------------------------------
\* the positions right after the sentence endings that lie wholly inside the
\* last SentenceLookback characters of the window [start_, hard) and begin
\* after start_
TerminatorEnds(t, start_, hard) ==
    {q + 2 : q \in {r \in Max2(start_ + 1, hard - SentenceLookback)..(hard - 2) :
                       \E k \in DOMAIN SentenceEndings : OccursAt(t, SentenceEndings[k], r)}}

\* the largest element of a non-empty set of numbers
MaxOf(S) == CHOOSE x \in S : \A y \in S : y <= x

\* C24: a window whose hard end start + chunk_size lies before the end of
\* the text and that holds one or more sentence endings after its start
\* ends right after the last of them, whatever their kinds and however close
\* they are to each other.
C24_EndsAfterLastTerminator ==
    \A i \in DOMAIN windows :
        (/\ windows[i].start + chunk_size < Len(text)
         /\ TerminatorEnds(text, windows[i].start, windows[i].start + chunk_size) # {})
        => windows[i].end =
              MaxOf(TerminatorEnds(text, windows[i].start, windows[i].start + chunk_size))

C28_EveryChunkHasItsDocument ==
    \A k \in DOMAIN chunks : \E d \in pdfs : d.id = chunks[k].pdf_id

\* C28 witness: clear-all ran and succeeded while the upload was between
\* its two files; the upload then stored the second file, whose document
\* and chunks are all the store holds although both entries report success.
C28_Witness ==
    /\ reqs.upload.pc = "done"
    /\ reqs.clear.pc = "done"
    /\ reqs.clear.status = 200
    /\ Len(reqs.upload.results) = 2
    /\ \A i \in 1..2 : reqs.upload.results[i].status = "success"
    /\ ~reqs.upload.files[1].is_confidential
    /\ Cardinality(pdfs) = 1
    /\ chunks # <<>>
    /\ \A k \in DOMAIN chunks : chunks[k].pdf_id = reqs.upload.results[2].pdf_id

\* C28 witness: the state between the two deletes of clear-all, with the
\* first document of the upload already stored: the chunks are gone and the
\* documents are still there.
C28_WitnessBetweenDeletes ==
    /\ reqs.clear.pc = "delete_pdfs"
    /\ reqs.upload.pc = "extract"
    /\ reqs.upload.i = 2
    /\ chunks = <<>>
    /\ Cardinality(pdfs) = 2

====
